---- MODULE Spec2Model ----
(***************************************************************************)
(* delivery-intel: the analysis pipeline.                                  *)
(*                                                                         *)
(* Two entry points assemble a report from the same collaborator data:     *)
(*   "web"  POST /api/analyze -> computeDORAMetrics (lib/metrics.ts),      *)
(*          scanVulnerabilities, generateSuggestions, computeOverallScore  *)
(*          (lib/suggestions.ts);                                          *)
(*   "cli"  analyze (cli/analyzer.ts) with its own copies of the metric,   *)
(*          suggestion and scoring functions.                              *)
(*                                                                         *)
(* Units.  Timestamps are minutes since a Sunday 00:00 (a date-fns week    *)
(* start).  Numbers the code rounds with toFixed are kept as integers in   *)
(* the unit of the last kept digit: deploymentsPerWeek in hundredths,      *)
(* percentage and medianHours in tenths.  A nullable number is <<>> (null) *)
(* or <<n>>.                                                               *)
(***************************************************************************)
EXTENDS Integers, Sequences, FiniteSets, TLC

VARIABLES
  entry,                \* "web" | "cli": the entry point that runs
  deployments,          \* reply of fetchDeployments: created_at of each record
  mergedPRs,            \* reply of fetchMergedPullRequests / fetchMergedPRs
  workflowRuns,         \* reply of fetchWorkflowRuns
  scanResult,           \* what the vulnerability scan resolves to
  failing,              \* the collaborator calls that reject
  task,                 \* task name -> "pending" | "done"
  deploymentFrequency,  \* result of the deployment-frequency task
  leadTimeForChanges,   \* result of the lead-time task
  changeFailureRate,    \* result of the change-failure-rate task
  vulnerabilities,      \* result of the scan task
  doraMetrics,          \* the assembled DORAMetrics
  suggestions,          \* Suggestion[] of the report
  overallScore,         \* overallScore of the report
  pc,                   \* "running" | "done" (pipeline), "unit" (engine called alone),
                        \* "fetch" | "parse" | "query" | "returned" (the scan),
                        \* "request" | "validated" | "responded" | "threw" (the entry)
  scanner,              \* which scanVulnerabilities / scanDependencies runs
  files,                \* the repository's manifests: file name -> content or null
  fetched,              \* what the scan's fetchFileContent calls resolved to
  osv,                  \* the vulnerability database: dependency -> reply to its query
  batchSize,            \* batchSize / BATCH_SIZE / BATCH of the scan loop
  allDeps,              \* allDeps / deps: the dependencies to query
  cursor,               \* i of the batch loop
  outstanding,          \* indices of allDeps whose query is in flight
  repoInput,            \* the repository string the caller passed
  id,                   \* the RepoIdentifier parseRepoSlug returned
  response,             \* HTTP status of POST's response / the error analyze threw
  calls,                \* collaborator calls issued so far, in order
  stored,               \* the analysis the cache holds for the repository's key, or null
  body,                 \* the body of POST's response
  call,                 \* a function called on its own: its name and arguments
  result,               \* <<>> until that call has returned, then <<its value>>
  error,                \* <<>>, or <<the error the Promise.all of the run rejected with>>
  redis,                \* the cache module's shared handle: null or <<client>>
  clients,              \* the Redis clients created so far: "open" | "disconnected"
  inflight,             \* the cacheGet / cacheSet / cacheDelete calls made so far
  emitter               \* the client whose "error" event was handled last, 0 before any

vars == <<entry, deployments, mergedPRs, workflowRuns, scanResult, failing, task,
          deploymentFrequency, leadTimeForChanges, changeFailureRate,
          vulnerabilities, doraMetrics, suggestions, overallScore, pc,
          scanner, files, fetched, osv, batchSize, allDeps, cursor, outstanding,
          repoInput, id, response, calls, stored, body, call, result, error,
          redis, clients, inflight, emitter>>

inputVars == <<entry, deployments, mergedPRs, workflowRuns, scanResult, failing>>

\* the state of the vulnerability scan
scanVars == <<scanner, files, fetched, osv, batchSize, allDeps, cursor, outstanding>>

\* the state of the entry point before the pipeline starts
requestVars == <<repoInput, id, response, calls, stored, body>>

\* a function of the risk engine, the hygiene checks or the metrics engine
\* called on its own
unitVars == <<call, result>>

\* the state of the cache module
cacheVars == <<redis, clients, inflight, emitter>>

-----------------------------------------------------------------------------
(* Bounds of the model                                                     *)

MaxDeployments == 2
MaxFreqPRs == 2
MaxLeadPRs == 3
MaxRuns == 3
MaxVulns == 2
MaxCritical == 6
MaxDeps == 3
MaxBatchSize == 3
MaxSeverityEntries == 2
MaxRanges == 2
MaxPulls == 2
MaxClients == 2
MaxCalls == 2

-----------------------------------------------------------------------------
(* Library functions the code calls                                        *)

Abs(x) == IF x < 0 THEN -x ELSE x

Min2(a, b) == IF a < b THEN a ELSE b

Max2(a, b) == IF a > b THEN a ELSE b

SeqsUpTo(S, n) == UNION {[1..k -> S] : k \in 0..n}

Repeat(x, n) == [i \in 1..n |-> x]

\* Number.prototype.toFixed followed by unary plus, for the value num/den:
\* the count of 1/scale units nearest to |num/den|, the larger one on a tie,
\* with the sign put back.  (A tie is decided on the double; for the
\* quotients within the bounds here every tie is exactly representable.)
ToFixed(num, den, scale) ==
  LET neg == (num < 0) # (den < 0)
      a == Abs(num) * scale
      b == Abs(den)
      q == (2 * a + b) \div (2 * b)
  IN IF neg THEN -q ELSE q

\* date-fns differenceInHours: elapsed minutes / 60, truncated toward zero.
differenceInHours(later, earlier) ==
  LET d == later - earlier
  IN IF d >= 0 THEN d \div 60 ELSE -((-d) \div 60)

\* date-fns startOfWeek (weeks start on Sunday 00:00).
startOfWeek(t) == t - (t % 10080)

\* date-fns differenceInCalendarWeeks(left, right): week starts apart; signed.
differenceInCalendarWeeks(left, right) ==
  (startOfWeek(left) - startOfWeek(right)) \div 10080

\* Array.prototype.sort with a comparator (a, b) => key(a) - key(b), keys[i]
\* being the key of s[i]: ascending by key, and stable (ECMAScript 2019):
\* equal keys keep their order.
SortedBy(s, keys) ==
  LET n == Len(s)
      pos(i) == 1 + Cardinality({j \in 1..n :
                      \/ keys[j] < keys[i]
                      \/ keys[j] = keys[i] /\ j < i})
  IN [k \in 1..n |-> s[CHOOSE i \in 1..n : pos(i) = k]]

\* the keys of (a, b) => a - b
Identity(s) == s

\* the keys of (a, b) => b - a
Negated(s) == [i \in 1..Len(s) |-> -s[i]]

\* Math.round of the value num/3 (round half up)
MathRoundThirds(num) == (2 * num + 3) \div 6

Null == <<>>

Some(x) == <<x>>

-----------------------------------------------------------------------------
(* lib/metrics.ts: the DORA metrics engine of the web pipeline             *)

rateDeploymentFrequency(perWeek) ==
  IF perWeek >= 700 THEN "Elite"
  ELSE IF perWeek >= 100 THEN "High"
  ELSE IF perWeek >= 25 THEN "Medium"
  ELSE "Low"

rateLeadTime(medianHours) ==
  IF medianHours < 240 THEN "Elite"
  ELSE IF medianHours < 1680 THEN "High"
  ELSE IF medianHours < 7200 THEN "Medium"
  ELSE "Low"

rateChangeFailureRate(pct) ==
  IF pct <= 50 THEN "Elite"
  ELSE IF pct <= 100 THEN "High"
  ELSE IF pct <= 150 THEN "Medium"
  ELSE "Low"

rateMTTR(hours) ==
  IF hours = Null THEN "N/A"
  ELSE IF hours[1] < 10 THEN "Elite"
  ELSE IF hours[1] < 240 THEN "High"
  ELSE IF hours[1] < 1680 THEN "Medium"
  ELSE "Low"

\* median that takes the middle of the list as given, without sorting it
medianUnsorted(values) ==
  IF Len(values) = 0 THEN 0
  ELSE LET sorted == values
           mid == Len(sorted) \div 2
       IN IF Len(sorted) % 2 # 0
          THEN 10 * sorted[mid + 1]
          ELSE 5 * (sorted[mid] + sorted[mid + 1])

\* median of whole numbers, in tenths (an even length gives a half)
median(values) ==
  IF Len(values) = 0 THEN 0
  ELSE LET sorted == SortedBy(values, Identity(values))
           mid == Len(sorted) \div 2
       IN IF Len(sorted) % 2 # 0
          THEN 10 * sorted[mid + 1]
          ELSE 5 * (sorted[mid] + sorted[mid + 1])

\* computeDeploymentFrequency taking the formal path from one record on
computeDeploymentFrequencyFromOne(deps, prs) ==
  IF Len(deps) >= 1
  THEN LET dates == [i \in 1..Len(deps) |-> deps[i].created_at]
           diff == differenceInCalendarWeeks(dates[1], dates[Len(dates)])
           weeks == IF diff = 0 THEN 1 ELSE diff
           perWeek == ToFixed(Len(deps), weeks, 100)
       IN [deploymentsPerWeek |-> perWeek,
           rating |-> rateDeploymentFrequency(perWeek),
           source |-> "deployments_api"]
  ELSE IF Len(prs) < 2
  THEN [deploymentsPerWeek |-> 0, rating |-> "Low", source |-> "merged_prs_fallback"]
  ELSE LET merges == [i \in 1..Len(prs) |-> prs[i].merged_at]
           prDates == SortedBy(merges, Negated(merges))
           diff == differenceInCalendarWeeks(prDates[1], prDates[Len(prDates)])
           weeks == IF diff = 0 THEN 1 ELSE diff
           perWeek == ToFixed(Len(prs), weeks, 100)
       IN [deploymentsPerWeek |-> perWeek,
           rating |-> rateDeploymentFrequency(perWeek),
           source |-> "merged_prs_fallback"]

computeDeploymentFrequency(deps, prs) ==
  IF Len(deps) >= 2
  THEN LET dates == [i \in 1..Len(deps) |-> deps[i].created_at]
           diff == differenceInCalendarWeeks(dates[1], dates[Len(dates)])
           weeks == IF diff = 0 THEN 1 ELSE diff
           perWeek == ToFixed(Len(deps), weeks, 100)
       IN [deploymentsPerWeek |-> perWeek,
           rating |-> rateDeploymentFrequency(perWeek),
           source |-> "deployments_api"]
  ELSE IF Len(prs) < 2
  THEN [deploymentsPerWeek |-> 0, rating |-> "Low", source |-> "merged_prs_fallback"]
  ELSE LET merges == [i \in 1..Len(prs) |-> prs[i].merged_at]
           prDates == SortedBy(merges, Negated(merges))
           diff == differenceInCalendarWeeks(prDates[1], prDates[Len(prDates)])
           weeks == IF diff = 0 THEN 1 ELSE diff
           perWeek == ToFixed(Len(prs), weeks, 100)
       IN [deploymentsPerWeek |-> perWeek,
           rating |-> rateDeploymentFrequency(perWeek),
           source |-> "merged_prs_fallback"]

\* merged_at is a timestamp, never null, in what the fetchers return
IsMerged(pr) == pr.merged_at \in Int

PRHours(prs) ==
  LET merged == SelectSeq(prs, IsMerged)
  IN [i \in 1..Len(merged) |->
        differenceInHours(merged[i].merged_at, merged[i].created_at)]

computeLeadTime(prs) ==
  LET hours == PRHours(prs)
      med == median(hours)
  IN [medianHours |-> ToFixed(med, 10, 10), rating |-> rateLeadTime(med)]

IsCompleted(r) == r.status = "completed"

IsFailure(r) == r.conclusion = "failure"

\* computeChangeFailureRate dividing by all the runs, completed or not
computeChangeFailureRateAllRuns(runs) ==
  IF Len(runs) = 0
  THEN [percentage |-> 0, failedRuns |-> 0, totalRuns |-> 0, rating |-> "Elite"]
  ELSE LET completed == runs
       IN IF Len(completed) = 0
          THEN [percentage |-> 0, failedRuns |-> 0, totalRuns |-> 0, rating |-> "Elite"]
          ELSE LET failures == SelectSeq(completed, IsFailure)
                   pct == ToFixed(Len(failures) * 100, Len(completed), 10)
               IN [percentage |-> pct,
                   failedRuns |-> Len(failures),
                   totalRuns |-> Len(completed),
                   rating |-> rateChangeFailureRate(pct)]

computeChangeFailureRate(runs) ==
  IF Len(runs) = 0
  THEN [percentage |-> 0, failedRuns |-> 0, totalRuns |-> 0, rating |-> "Elite"]
  ELSE LET completed == SelectSeq(runs, IsCompleted)
       IN IF Len(completed) = 0
          THEN [percentage |-> 0, failedRuns |-> 0, totalRuns |-> 0, rating |-> "Elite"]
          ELSE LET failures == SelectSeq(completed, IsFailure)
                   pct == ToFixed(Len(failures) * 100, Len(completed), 10)
               IN [percentage |-> pct,
                   failedRuns |-> Len(failures),
                   totalRuns |-> Len(completed),
                   rating |-> rateChangeFailureRate(pct)]

CreatedAt(runs) == [i \in 1..Len(runs) |-> runs[i].created_at]

\* the restorationTimes computeMTTR collects, in the order it pushes them
restorationTimes(runs) ==
  LET sorted == SortedBy(runs, CreatedAt(runs))
      n == Len(sorted)
      failed(i) == sorted[i].status = "completed" /\ sorted[i].conclusion = "failure"
      recoveries(i) == {j \in (i + 1)..n :
                          /\ sorted[j].status = "completed"
                          /\ sorted[j].conclusion = "success"
                          /\ sorted[j].head_branch = sorted[i].head_branch}
      next(i) == CHOOSE j \in recoveries(i) : \A k \in recoveries(i) : j <= k
      Restored(i) == failed(i) /\ recoveries(i) # {}
      hits == SelectSeq([i \in 1..n |-> i], Restored)
  IN [k \in 1..Len(hits) |->
        differenceInHours(sorted[next(hits[k])].created_at, sorted[hits[k]].created_at)]

computeMTTR(runs) ==
  IF Len(restorationTimes(runs)) = 0
  THEN [medianHours |-> Null, rating |-> "N/A"]
  ELSE LET med == median(restorationTimes(runs))
       IN [medianHours |-> Some(ToFixed(med, 10, 10)), rating |-> rateMTTR(Some(med))]

computeDORAMetrics(df, lt, cfr) ==
  [deploymentFrequency |-> df,
   leadTimeForChanges |-> lt,
   changeFailureRate |-> cfr,
   meanTimeToRestore |-> [medianHours |-> Null, rating |-> "N/A"]]

-----------------------------------------------------------------------------
(* cli/analyzer.ts: the metric functions of the CLI                        *)

cliMedian(values) ==
  IF Len(values) = 0 THEN 0
  ELSE LET sorted == SortedBy(values, Identity(values))
           mid == Len(sorted) \div 2
       IN IF Len(sorted) % 2 # 0
          THEN 10 * sorted[mid + 1]
          ELSE 5 * (sorted[mid] + sorted[mid + 1])

rateDeployFreq(v) ==
  IF v >= 700 THEN "Elite"
  ELSE IF v >= 100 THEN "High"
  ELSE IF v >= 25 THEN "Medium"
  ELSE "Low"

cliRateLeadTime(h) ==
  IF h < 240 THEN "Elite"
  ELSE IF h < 1680 THEN "High"
  ELSE IF h < 7200 THEN "Medium"
  ELSE "Low"

rateCFR(p) ==
  IF p <= 50 THEN "Elite"
  ELSE IF p <= 100 THEN "High"
  ELSE IF p <= 150 THEN "Medium"
  ELSE "Low"

computeDeployFrequency(deps, prs) ==
  IF Len(deps) >= 2
  THEN LET dates == [i \in 1..Len(deps) |-> deps[i].created_at]
           diff == differenceInCalendarWeeks(dates[1], dates[Len(dates)])
           weeks == IF diff = 0 THEN 1 ELSE diff
           perWeek == ToFixed(Len(deps), weeks, 100)
       IN [deploymentsPerWeek |-> perWeek,
           rating |-> rateDeployFreq(perWeek),
           source |-> "deployments_api"]
  ELSE IF Len(prs) < 2
  THEN [deploymentsPerWeek |-> 0, rating |-> "Low", source |-> "merged_prs_fallback"]
  ELSE LET merges == [i \in 1..Len(prs) |-> prs[i].merged_at]
           prDates == SortedBy(merges, Negated(merges))
           diff == differenceInCalendarWeeks(prDates[1], prDates[Len(prDates)])
           weeks == IF diff = 0 THEN 1 ELSE diff
           perWeek == ToFixed(Len(prs), weeks, 100)
       IN [deploymentsPerWeek |-> perWeek,
           rating |-> rateDeployFreq(perWeek),
           source |-> "merged_prs_fallback"]

cliComputeLeadTime(prs) ==
  LET hours == PRHours(prs)
  IN IF Len(hours) = 0
     THEN [medianHours |-> 0, rating |-> "N/A"]
     ELSE LET med == cliMedian(hours)
          IN [medianHours |-> ToFixed(med, 10, 10), rating |-> cliRateLeadTime(med)]

computeCFR(runs) ==
  IF Len(runs) = 0
  THEN [percentage |-> 0, failedRuns |-> 0, totalRuns |-> 0, rating |-> "N/A"]
  ELSE LET completed == SelectSeq(runs, IsCompleted)
       IN IF Len(completed) = 0
          THEN [percentage |-> 0, failedRuns |-> 0, totalRuns |-> 0, rating |-> "N/A"]
          ELSE LET failures == SelectSeq(completed, IsFailure)
                   pct == ToFixed(Len(failures) * 100, Len(completed), 10)
               IN [percentage |-> pct,
                   failedRuns |-> Len(failures),
                   totalRuns |-> Len(completed),
                   rating |-> rateCFR(pct)]

cliDoraMetrics(df, lt, cfr) ==
  [deploymentFrequency |-> df,
   leadTimeForChanges |-> lt,
   changeFailureRate |-> cfr]

-----------------------------------------------------------------------------
(* lib/suggestions.ts: suggestion and scoring engines of the web pipeline  *)
(* A Suggestion keeps its category, severity and title; the title of a     *)
(* vulnerability suggestion is kept without its leading count.             *)

Suggestion(category, severity, title) ==
  [category |-> category, severity |-> severity, title |-> title]

\* severityOrder with the ranks of medium and low exchanged
severityOrderLowFirst(s) ==
  IF s.severity = "high" THEN 0 ELSE IF s.severity = "medium" THEN 2 ELSE 1

severityOrder(s) ==
  IF s.severity = "high" THEN 0 ELSE IF s.severity = "medium" THEN 1 ELSE 2

IsCritical(v) == v.severity = "critical"

IsHigh(v) == v.severity = "high"

generateSuggestions(dora, vulns) ==
  LET failureRate ==
        IF dora.changeFailureRate.percentage > 150
        THEN <<Suggestion("reliability", "high", "High Pipeline Failure Rate")>>
        ELSE IF dora.changeFailureRate.percentage > 100
        THEN <<Suggestion("reliability", "medium", "Moderate Pipeline Failure Rate")>>
        ELSE <<>>
      leadTime ==
        IF dora.leadTimeForChanges.medianHours > 1680
        THEN <<Suggestion("performance", "high", "Slow Lead Time for Changes")>>
        ELSE IF dora.leadTimeForChanges.medianHours > 480
        THEN <<Suggestion("performance", "medium", "PRs Are Sitting Too Long")>>
        ELSE <<>>
      frequency ==
        IF dora.deploymentFrequency.rating = "Low"
        THEN <<Suggestion("performance", "medium", "Low Deployment Frequency")>>
        ELSE <<>>
      tracking ==
        IF dora.deploymentFrequency.source = "merged_prs_fallback"
        THEN <<Suggestion("performance", "low", "No Formal Deployment Tracking")>>
        ELSE <<>>
      critical == SelectSeq(vulns, IsCritical)
      high == SelectSeq(vulns, IsHigh)
      criticalVulns ==
        IF Len(critical) > 0
        THEN <<Suggestion("security", "high", "Critical Vulnerabilities Found")>>
        ELSE <<>>
      highVulns ==
        IF Len(high) > 0
        THEN <<Suggestion("security", "medium", "High-Severity Vulnerabilities Found")>>
        ELSE <<>>
      noVulns ==
        IF Len(vulns) = 0
        THEN <<Suggestion("security", "low", "No Known Vulnerabilities")>>
        ELSE <<>>
  IN LET all == failureRate \o leadTime \o frequency \o tracking
                 \o criticalVulns \o highVulns \o noVulns
     IN SortedBy(all, [i \in 1..Len(all) |-> severityOrder(all[i])])

RATING_SCORES ==
  ("Elite" :> 100) @@ ("High" :> 75) @@ ("Medium" :> 50) @@ ("Low" :> 25) @@ ("N/A" :> 50)

RECURSIVE vulnPenalty(_)
vulnPenalty(vulns) ==
  IF vulns = <<>> THEN 0
  ELSE LET v == vulns[Len(vulns)]
           sum == vulnPenalty(SubSeq(vulns, 1, Len(vulns) - 1))
       IN IF v.severity = "critical" THEN sum + 5
          ELSE IF v.severity = "high" THEN sum + 2
          ELSE IF v.severity = "medium" THEN sum + 1
          ELSE sum

\* computeOverallScore without the Math.max(0, ...) floor
computeOverallScoreNoFloor(dora, vulns) ==
  LET ratings == RATING_SCORES[dora.deploymentFrequency.rating]
                   + RATING_SCORES[dora.leadTimeForChanges.rating]
                   + RATING_SCORES[dora.changeFailureRate.rating]
  IN Min2(100, MathRoundThirds(ratings - 3 * vulnPenalty(vulns)))

computeOverallScore(dora, vulns) ==
  LET ratings == RATING_SCORES[dora.deploymentFrequency.rating]
                   + RATING_SCORES[dora.leadTimeForChanges.rating]
                   + RATING_SCORES[dora.changeFailureRate.rating]
  IN Max2(0, Min2(100, MathRoundThirds(ratings - 3 * vulnPenalty(vulns))))

-----------------------------------------------------------------------------
(* cli/analyzer.ts: suggestion and scoring engines of the CLI              *)

\* the CLI's generateSuggestions with the lead-time rule as two independent
\* ifs: above 168 hours the medium suggestion comes with the high one
cliGenerateSuggestionsBothLeadTime(dora, vulns) ==
  generateSuggestions(dora, vulns)
    \o (IF dora.leadTimeForChanges.medianHours > 1680
        THEN <<Suggestion("performance", "medium", "PRs Sitting Too Long")>>
        ELSE <<>>)

cliGenerateSuggestions(dora, vulns) ==
  LET failureRate ==
        IF dora.changeFailureRate.percentage > 150
        THEN <<Suggestion("reliability", "high", "High Pipeline Failure Rate")>>
        ELSE IF dora.changeFailureRate.percentage > 100
        THEN <<Suggestion("reliability", "medium", "Moderate Pipeline Failure Rate")>>
        ELSE <<>>
      leadTime ==
        IF dora.leadTimeForChanges.medianHours > 1680
        THEN <<Suggestion("performance", "high", "Slow Lead Time for Changes")>>
        ELSE IF dora.leadTimeForChanges.medianHours > 480
        THEN <<Suggestion("performance", "medium", "PRs Sitting Too Long")>>
        ELSE <<>>
      frequency ==
        IF dora.deploymentFrequency.rating = "Low" \/ dora.deploymentFrequency.rating = "N/A"
        THEN <<Suggestion("performance", "medium", "Low Deployment Frequency")>>
        ELSE <<>>
      critical == SelectSeq(vulns, IsCritical)
      high == SelectSeq(vulns, IsHigh)
      criticalVulns ==
        IF Len(critical) > 0
        THEN <<Suggestion("security", "high", "Critical Vulnerabilities")>>
        ELSE <<>>
      highVulns ==
        IF Len(high) > 0
        THEN <<Suggestion("security", "medium", "High-Severity Vulnerabilities")>>
        ELSE <<>>
      noVulns ==
        IF Len(vulns) = 0
        THEN <<Suggestion("security", "low", "No Known Vulnerabilities")>>
        ELSE <<>>
  IN LET all == failureRate \o leadTime \o frequency
                 \o criticalVulns \o highVulns \o noVulns
     IN SortedBy(all, [i \in 1..Len(all) |-> severityOrder(all[i])])

SCORES ==
  ("Elite" :> 100) @@ ("High" :> 75) @@ ("Medium" :> 50) @@ ("Low" :> 25) @@ ("N/A" :> 50)

RECURSIVE penalty(_)
penalty(vulns) ==
  IF vulns = <<>> THEN 0
  ELSE LET v == vulns[Len(vulns)]
           sum == penalty(SubSeq(vulns, 1, Len(vulns) - 1))
       IN IF v.severity = "critical" THEN sum + 5
          ELSE IF v.severity = "high" THEN sum + 2
          ELSE IF v.severity = "medium" THEN sum + 1
          ELSE sum

computeScore(dora, vulns) ==
  LET ratings == SCORES[dora.deploymentFrequency.rating]
                   + SCORES[dora.leadTimeForChanges.rating]
                   + SCORES[dora.changeFailureRate.rating]
  IN Max2(0, Min2(100, MathRoundThirds(ratings - 3 * penalty(vulns))))

-----------------------------------------------------------------------------
(* Collaborator data the runs are checked on                               *)

Ratings == {"Elite", "High", "Medium", "Low", "N/A"}

Severities == {"critical", "high", "medium", "low", "unknown"}

Sources == {"deployments_api", "merged_prs_fallback"}

Entries == {"web", "cli"}

TaskNames == {"deploymentFrequency", "leadTime", "changeFailureRate", "scan",
              "dora", "suggestions", "score"}

\* Saturday of week 0, Sunday of week 1 (19 hours later), Sunday of week 3
FreqTimes == {9000, 10140, 30300}

FreqDeployments == {[created_at |-> t] : t \in FreqTimes}

FreqPRs == {[created_at |-> t, merged_at |-> t] : t \in FreqTimes}

\* 30 min, 23 h 59 min, 24 h, 49 h, 168 h, 720 h from creation to merge
LeadDurations == {30, 1439, 1440, 2940, 10080, 43200}

LeadPRs == {[created_at |-> 0, merged_at |-> d] : d \in LeadDurations}

Run(status, conclusion, created_at, head_branch) ==
  [status |-> status, conclusion |-> conclusion,
   created_at |-> created_at, head_branch |-> head_branch]

RunKinds ==
  {Run("completed", "failure", 0, "main"),
   Run("completed", "success", 150, "main"),
   Run("completed", "success", 60, "feature"),
   Run("in_progress", "null", 30, "main"),
   Run("queued", "null", 200, "main")}

\* <<failures, successes>> of the longer run lists: 0, 5, 5.3, 6.3 (a tie),
\* 10, 10.5, 14.3, 15 and 15.4 per cent
LongRunShapes ==
  {<<0, 20>>, <<1, 19>>, <<1, 18>>, <<1, 15>>, <<1, 9>>, <<2, 17>>,
   <<1, 6>>, <<3, 17>>, <<2, 11>>}

LongRuns ==
  {Repeat(Run("completed", "failure", 0, "main"), sh[1])
     \o Repeat(Run("completed", "success", 150, "main"), sh[2]) : sh \in LongRunShapes}

Vuln(severity) == [severity |-> severity]

VulnRecords == {Vuln(s) : s \in Severities}

ScanFixtures == {<<>>, <<Vuln("critical"), Vuln("low")>>}

Unset == [rating |-> "unset"]

AllPending == [t \in TaskNames |-> "pending"]

Done(t) == task[t] = "done"

Finish(t) == task' = [task EXCEPT ![t] = "done"]

\* no scan is running
ScanIdle ==
  /\ scanner = "none" /\ files = <<>> /\ fetched = <<>> /\ osv = <<>>
  /\ batchSize = 0 /\ allDeps = <<>> /\ cursor = 0 /\ outstanding = {}

\* the cache module as loaded: no client yet, no call made
CacheIdle == redis = Null /\ clients = <<>> /\ inflight = <<>> /\ emitter = 0

\* the entry point has validated its input and started the pipeline
RequestIdle ==
  /\ repoInput = <<>> /\ id = <<>> /\ response = 0 /\ calls = <<>>
  /\ stored = Null /\ body = Null
  /\ CacheIdle

\* no function is being called on its own
UnitIdle == call = <<>> /\ result = <<>>

\* no task of the pipeline has resolved
ResultsUnset ==
  /\ deploymentFrequency = Unset
  /\ leadTimeForChanges = Unset
  /\ changeFailureRate = Unset
  /\ vulnerabilities = <<>>
  /\ doraMetrics = Unset
  /\ suggestions = <<>>
  /\ overallScore = 0
  /\ error = Null

InitResults == ScanIdle /\ RequestIdle /\ UnitIdle /\ ResultsUnset

InitPipeline ==
  /\ entry \in Entries
  /\ task = AllPending
  /\ pc = "running"
  /\ failing = {}
  /\ InitResults

InitFrequency ==
  /\ InitPipeline
  /\ deployments \in SeqsUpTo(FreqDeployments, MaxDeployments)
  /\ mergedPRs \in SeqsUpTo(FreqPRs, MaxFreqPRs)
  /\ workflowRuns = <<>>
  /\ scanResult \in ScanFixtures

InitLeadTime ==
  /\ InitPipeline
  /\ deployments = <<>>
  /\ mergedPRs \in SeqsUpTo(LeadPRs, MaxLeadPRs)
  /\ workflowRuns = <<>>
  /\ scanResult = <<>>

InitFailureRate ==
  /\ InitPipeline
  /\ deployments = <<>>
  /\ mergedPRs = <<>>
  /\ workflowRuns \in SeqsUpTo(RunKinds, MaxRuns) \cup LongRuns
  /\ scanResult = <<>>

\* the collaborator calls of analyze that can reject
Collaborators == {"fetchDeployments", "fetchMergedPRs", "fetchWorkflowRuns"}

\* analyze on a repository for which some collaborator calls reject
InitFaults ==
  /\ InitResults
  /\ entry = "cli" /\ task = AllPending /\ pc = "running"
  /\ failing \in SUBSET Collaborators \ {{}}
  /\ deployments \in {<<>>, <<[created_at |-> 20160], [created_at |-> 0]>>}
  /\ mergedPRs \in {<<>>, <<[created_at |-> 0, merged_at |-> 1440]>>}
  /\ workflowRuns \in {<<>>, <<Run("completed", "failure", 0, "main")>>}
  /\ scanResult \in ScanFixtures

Init == InitFrequency \/ InitLeadTime \/ InitFailureRate \/ InitFaults

-----------------------------------------------------------------------------
(* The web pipeline: POST /api/analyze                                     *)

DeploymentFrequencyTask ==
  /\ pc = "running" /\ entry = "web" /\ ~Done("deploymentFrequency")
  /\ deploymentFrequency' = computeDeploymentFrequency(deployments, mergedPRs)
  /\ Finish("deploymentFrequency")
  /\ UNCHANGED <<inputVars, error, unitVars, cacheVars, scanVars, requestVars, leadTimeForChanges, changeFailureRate, vulnerabilities,
                 doraMetrics, suggestions, overallScore, pc>>

LeadTimeTask ==
  /\ pc = "running" /\ entry = "web" /\ ~Done("leadTime")
  /\ leadTimeForChanges' = computeLeadTime(mergedPRs)
  /\ Finish("leadTime")
  /\ UNCHANGED <<inputVars, error, unitVars, cacheVars, scanVars, requestVars, deploymentFrequency, changeFailureRate, vulnerabilities,
                 doraMetrics, suggestions, overallScore, pc>>

ChangeFailureRateTask ==
  /\ pc = "running" /\ entry = "web" /\ ~Done("changeFailureRate")
  /\ changeFailureRate' = computeChangeFailureRate(workflowRuns)
  /\ Finish("changeFailureRate")
  /\ UNCHANGED <<inputVars, error, unitVars, cacheVars, scanVars, requestVars, deploymentFrequency, leadTimeForChanges, vulnerabilities,
                 doraMetrics, suggestions, overallScore, pc>>

\* computeDORAMetrics returns once its three tasks have resolved
DORAMetricsJoin ==
  /\ pc = "running" /\ entry = "web" /\ ~Done("dora")
  /\ Done("deploymentFrequency") /\ Done("leadTime") /\ Done("changeFailureRate")
  /\ doraMetrics' = computeDORAMetrics(deploymentFrequency, leadTimeForChanges,
                                       changeFailureRate)
  /\ Finish("dora")
  /\ UNCHANGED <<inputVars, error, unitVars, cacheVars, scanVars, requestVars, deploymentFrequency, leadTimeForChanges, changeFailureRate,
                 vulnerabilities, suggestions, overallScore, pc>>

ScanTask ==
  /\ pc = "running" /\ entry = "web" /\ ~Done("scan")
  /\ vulnerabilities' = scanResult
  /\ Finish("scan")
  /\ UNCHANGED <<inputVars, error, unitVars, cacheVars, scanVars, requestVars, deploymentFrequency, leadTimeForChanges, changeFailureRate,
                 doraMetrics, suggestions, overallScore, pc>>

\* POST after its Promise.all: suggestions, score, response
PostRespond ==
  /\ pc = "running" /\ entry = "web"
  /\ Done("dora") /\ Done("scan")
  /\ suggestions' = generateSuggestions(doraMetrics, vulnerabilities)
  /\ overallScore' = computeOverallScore(doraMetrics, vulnerabilities)
  /\ task' = [task EXCEPT !["suggestions"] = "done", !["score"] = "done"]
  /\ pc' = "done"
  /\ UNCHANGED <<inputVars, error, unitVars, cacheVars, scanVars, requestVars, deploymentFrequency, leadTimeForChanges, changeFailureRate,
                 vulnerabilities, doraMetrics>>

-----------------------------------------------------------------------------
(* The CLI: analyze                                                        *)

Pending(t) == task[t] = "pending"

\* the task's promise rejects with the error of the call that failed; the
\* Promise.all of analyze rejects with the first such error
Reject(t, failed) ==
  /\ task' = [task EXCEPT ![t] = "rejected"]
  /\ error' = IF error = Null THEN Some(failed) ELSE error

\* the tasks are not cancelled when analyze has rejected
CliDeployFrequencyTask ==
  /\ pc \in {"running", "rejected"} /\ entry = "cli" /\ Pending("deploymentFrequency")
  /\ IF "fetchDeployments" \in failing
     THEN Reject("deploymentFrequency", "fetchDeployments") /\ UNCHANGED deploymentFrequency
     ELSE IF Len(deployments) < 2 /\ "fetchMergedPRs" \in failing
     THEN Reject("deploymentFrequency", "fetchMergedPRs") /\ UNCHANGED deploymentFrequency
     ELSE /\ deploymentFrequency' = computeDeployFrequency(deployments, mergedPRs)
          /\ Finish("deploymentFrequency")
          /\ UNCHANGED error
  /\ UNCHANGED <<inputVars, unitVars, cacheVars, scanVars, requestVars, leadTimeForChanges, changeFailureRate, vulnerabilities,
                 doraMetrics, suggestions, overallScore, pc>>

CliLeadTimeTask ==
  /\ pc \in {"running", "rejected"} /\ entry = "cli" /\ Pending("leadTime")
  /\ IF "fetchMergedPRs" \in failing
     THEN Reject("leadTime", "fetchMergedPRs") /\ UNCHANGED leadTimeForChanges
     ELSE /\ leadTimeForChanges' = cliComputeLeadTime(mergedPRs)
          /\ Finish("leadTime")
          /\ UNCHANGED error
  /\ UNCHANGED <<inputVars, unitVars, cacheVars, scanVars, requestVars, deploymentFrequency, changeFailureRate, vulnerabilities,
                 doraMetrics, suggestions, overallScore, pc>>

CliCFRTask ==
  /\ pc \in {"running", "rejected"} /\ entry = "cli" /\ Pending("changeFailureRate")
  /\ IF "fetchWorkflowRuns" \in failing
     THEN Reject("changeFailureRate", "fetchWorkflowRuns") /\ UNCHANGED changeFailureRate
     ELSE /\ changeFailureRate' = computeCFR(workflowRuns)
          /\ Finish("changeFailureRate")
          /\ UNCHANGED error
  /\ UNCHANGED <<inputVars, unitVars, cacheVars, scanVars, requestVars, deploymentFrequency, leadTimeForChanges, vulnerabilities,
                 doraMetrics, suggestions, overallScore, pc>>

\* the scan absorbs the failures of its own requests and does not reject
CliScanTask ==
  /\ pc \in {"running", "rejected"} /\ entry = "cli" /\ Pending("scan")
  /\ vulnerabilities' = scanResult
  /\ Finish("scan")
  /\ UNCHANGED <<inputVars, error, unitVars, cacheVars, scanVars, requestVars, deploymentFrequency, leadTimeForChanges, changeFailureRate,
                 doraMetrics, suggestions, overallScore, pc>>

\* the await of analyze throws once its Promise.all has rejected
AnalyzeReject ==
  /\ pc = "running" /\ entry = "cli"
  /\ error # Null
  /\ pc' = "rejected"
  /\ UNCHANGED <<inputVars, error, unitVars, cacheVars, scanVars, requestVars, task, deploymentFrequency,
                 leadTimeForChanges, changeFailureRate, vulnerabilities, doraMetrics,
                 suggestions, overallScore>>

\* analyze that assembles its result without awaiting the scan
AnalyzeEarly ==
  /\ pc = "running" /\ entry = "cli"
  /\ Done("deploymentFrequency") /\ Done("leadTime") /\ Done("changeFailureRate")
  /\ LET dora == cliDoraMetrics(deploymentFrequency, leadTimeForChanges, changeFailureRate)
     IN /\ doraMetrics' = dora
        /\ suggestions' = cliGenerateSuggestions(dora, vulnerabilities)
        /\ overallScore' = computeScore(dora, vulnerabilities)
  /\ task' = [task EXCEPT !["dora"] = "done", !["suggestions"] = "done",
                          !["score"] = "done"]
  /\ pc' = "done"
  /\ UNCHANGED <<inputVars, error, unitVars, cacheVars, scanVars, requestVars, deploymentFrequency,
                 leadTimeForChanges, changeFailureRate, vulnerabilities>>

\* analyze after its Promise.all: doraMetrics, suggestions, score, result
Analyze ==
  /\ pc = "running" /\ entry = "cli"
  /\ Done("deploymentFrequency") /\ Done("leadTime")
  /\ Done("changeFailureRate") /\ Done("scan")
  /\ LET dora == cliDoraMetrics(deploymentFrequency, leadTimeForChanges, changeFailureRate)
     IN /\ doraMetrics' = dora
        /\ suggestions' = cliGenerateSuggestions(dora, vulnerabilities)
        /\ overallScore' = computeScore(dora, vulnerabilities)
  /\ task' = [task EXCEPT !["dora"] = "done", !["suggestions"] = "done",
                          !["score"] = "done"]
  /\ pc' = "done"
  /\ UNCHANGED <<inputVars, error, unitVars, cacheVars, scanVars, requestVars, deploymentFrequency, leadTimeForChanges, changeFailureRate,
                 vulnerabilities>>

Next ==
  \/ DeploymentFrequencyTask
  \/ LeadTimeTask
  \/ ChangeFailureRateTask
  \/ DORAMetricsJoin
  \/ ScanTask
  \/ PostRespond
  \/ CliDeployFrequencyTask
  \/ CliLeadTimeTask
  \/ CliCFRTask
  \/ CliScanTask
  \/ Analyze
  \/ AnalyzeReject

Spec == Init /\ [][Next]_vars

-----------------------------------------------------------------------------
(* The suggestion and scoring engines called on their own, on a            *)
(* DORAMetrics value and a vulnerability list of the caller's choosing     *)

Dora(perWeek, dfRating, source, hours, ltRating, pct, cfrRating, mttr) ==
  [deploymentFrequency |->
     [deploymentsPerWeek |-> perWeek, rating |-> dfRating, source |-> source],
   leadTimeForChanges |-> [medianHours |-> hours, rating |-> ltRating],
   changeFailureRate |->
     [percentage |-> pct, failedRuns |-> 1, totalRuns |-> 30, rating |-> cfrRating],
   meanTimeToRestore |-> mttr]

MttrFixtures ==
  {[medianHours |-> Null, rating |-> "N/A"], [medianHours |-> Some(20), rating |-> "High"]}

\* every combination of the three ratings the score reads
ScoreDoras ==
  {Dora(500, r[1], "deployments_api", 120, r[2], 30, r[3], m) :
     r \in Ratings \X Ratings \X Ratings, m \in MttrFixtures}

ScoreVulnLists ==
  SeqsUpTo(VulnRecords, MaxVulns)
    \cup {Repeat(Vuln("critical"), n) : n \in 1..MaxCritical}

\* 10, 10.1, 15, 15.1 per cent; 48, 48.5, 168, 168.5 hours
SuggestPercentages == {100, 101, 150, 151}

SuggestHours == {480, 485, 1680, 1685}

SuggestDoras ==
  {Dora(500, r, src, h, rateLeadTime(h), p, rateChangeFailureRate(p),
        [medianHours |-> Null, rating |-> "N/A"]) :
     r \in Ratings, src \in Sources, h \in SuggestHours, p \in SuggestPercentages}

InitUnit ==
  /\ entry \in Entries
  /\ pc = "unit"
  /\ task = [t \in TaskNames |-> IF t \in {"suggestions", "score"} THEN "pending" ELSE "done"]
  /\ deployments = <<>> /\ mergedPRs = <<>> /\ workflowRuns = <<>> /\ scanResult = <<>>
  /\ deploymentFrequency = Unset /\ leadTimeForChanges = Unset /\ changeFailureRate = Unset
  /\ suggestions = <<>> /\ overallScore = 0
  /\ failing = {} /\ error = Null
  /\ ScanIdle /\ RequestIdle /\ UnitIdle

InitScore ==
  /\ InitUnit
  /\ doraMetrics \in ScoreDoras
  /\ vulnerabilities \in ScoreVulnLists

InitSuggest ==
  /\ InitUnit
  /\ doraMetrics \in SuggestDoras
  /\ vulnerabilities \in SeqsUpTo(VulnRecords, MaxVulns)

InitEngine == InitScore \/ InitSuggest

CallGenerateSuggestions ==
  /\ pc = "unit" /\ entry = "web" /\ ~Done("suggestions")
  /\ suggestions' = generateSuggestions(doraMetrics, vulnerabilities)
  /\ Finish("suggestions")
  /\ UNCHANGED <<inputVars, error, unitVars, cacheVars, scanVars, requestVars, deploymentFrequency, leadTimeForChanges, changeFailureRate,
                 vulnerabilities, doraMetrics, overallScore, pc>>

CallComputeOverallScore ==
  /\ pc = "unit" /\ entry = "web" /\ ~Done("score")
  /\ overallScore' = computeOverallScore(doraMetrics, vulnerabilities)
  /\ Finish("score")
  /\ UNCHANGED <<inputVars, error, unitVars, cacheVars, scanVars, requestVars, deploymentFrequency, leadTimeForChanges, changeFailureRate,
                 vulnerabilities, doraMetrics, suggestions, pc>>

CallCliGenerateSuggestions ==
  /\ pc = "unit" /\ entry = "cli" /\ ~Done("suggestions")
  /\ suggestions' = cliGenerateSuggestions(doraMetrics, vulnerabilities)
  /\ Finish("suggestions")
  /\ UNCHANGED <<inputVars, error, unitVars, cacheVars, scanVars, requestVars, deploymentFrequency, leadTimeForChanges, changeFailureRate,
                 vulnerabilities, doraMetrics, overallScore, pc>>

CallComputeScore ==
  /\ pc = "unit" /\ entry = "cli" /\ ~Done("score")
  /\ overallScore' = computeScore(doraMetrics, vulnerabilities)
  /\ Finish("score")
  /\ UNCHANGED <<inputVars, error, unitVars, cacheVars, scanVars, requestVars, deploymentFrequency, leadTimeForChanges, changeFailureRate,
                 vulnerabilities, doraMetrics, suggestions, pc>>

NextEngine ==
  \/ CallGenerateSuggestions
  \/ CallComputeOverallScore
  \/ CallCliGenerateSuggestions
  \/ CallComputeScore

EngineSpec == InitEngine /\ [][NextEngine]_vars

-----------------------------------------------------------------------------
(* Strings.  A string is the sequence of its characters, each a string of  *)
(* length one, so that trimming, splitting and the regular expressions     *)
(* of the code are computed on characters.                                 *)

DigitChars == {"0", "1", "2", "3", "4", "5", "6", "7", "8", "9"}

LetterChars ==
  {"a", "b", "c", "d", "e", "f", "g", "h", "i", "j", "k", "l", "m", "n", "o", "p", "q",
   "r", "s", "t", "u", "v", "w", "x", "y", "z", "A", "B", "C", "D", "E", "F", "G", "H",
   "I", "J", "K", "L", "M", "N", "O", "P", "Q", "R", "S", "T", "U", "V", "W", "X", "Y",
   "Z"}

\* \s of a regular expression, and what trim() removes
WhiteChars == {" ", "\t", "\n", "\r"}

\* the character class [A-Za-z0-9_.-]
NameChars == LetterChars \cup DigitChars \cup {"_", ".", "-"}

\* the characters the strings of the model are made of
Chars ==
  NameChars \cup WhiteChars
    \cup {"/", ":", "(", ")", "=", "<", ">", "~", "!", "^", "#", "@", "+", "*", "?"}

DigitValue(c) ==
  CASE c = "0" -> 0 [] c = "1" -> 1 [] c = "2" -> 2 [] c = "3" -> 3 [] c = "4" -> 4
    [] c = "5" -> 5 [] c = "6" -> 6 [] c = "7" -> 7 [] c = "8" -> 8 [] c = "9" -> 9

\* the index after the longest run of characters of class that starts at from
RunEnd(s, from, class) ==
  CHOOSE j \in from..(Len(s) + 1) :
    /\ \A k \in from..(j - 1) : s[k] \in class
    /\ j = Len(s) + 1 \/ s[j] \notin class

\* s.slice(from - 1): the characters from index from on
Slice(s, from) == SubSeq(s, from, Len(s))

\* does lit occur in s at index at
StartsWithAt(s, at, lit) ==
  /\ at + Len(lit) - 1 <= Len(s)
  /\ SubSeq(s, at, at + Len(lit) - 1) = lit

EndsWith(s, lit) == Len(lit) <= Len(s) /\ StartsWithAt(s, Len(s) - Len(lit) + 1, lit)

\* String.prototype.trim
Trim(s) ==
  LET first == RunEnd(s, 1, WhiteChars)
      last == IF first > Len(s) THEN Len(s)
              ELSE CHOOSE j \in first..Len(s) :
                     /\ s[j] \notin WhiteChars
                     /\ \A k \in (j + 1)..Len(s) : s[k] \in WhiteChars
  IN SubSeq(s, first, last)

\* the number a sequence of decimal digits denotes
RECURSIVE DecimalValue(_)
DecimalValue(digits) ==
  IF Len(digits) = 0 THEN 0
  ELSE 10 * DecimalValue(SubSeq(digits, 1, Len(digits) - 1))
         + DigitValue(digits[Len(digits)])

RECURSIVE PowerOfTen(_)
PowerOfTen(n) == IF n = 0 THEN 1 ELSE 10 * PowerOfTen(n - 1)

NaN == [kind |-> "NaN"]

\* parseFloat: leading white space is skipped, then the longest prefix that
\* is a decimal literal (sign, digits, fraction, exponent) or Infinity is
\* the value, whatever follows it; no such prefix gives NaN.  A finite
\* value is the fraction num / den.
parseFloat(str) ==
  LET t == Slice(str, RunEnd(str, 1, WhiteChars))
      signed == Len(t) > 0 /\ t[1] \in {"+", "-"}
      negative == signed /\ t[1] = "-"
      p == IF signed THEN 2 ELSE 1
      intEnd == RunEnd(t, p, DigitChars)
      hasDot == intEnd <= Len(t) /\ t[intEnd] = "."
      fracEnd == IF hasDot THEN RunEnd(t, intEnd + 1, DigitChars) ELSE intEnd
      fracLen == IF hasDot THEN fracEnd - intEnd - 1 ELSE 0
      mantissa == DecimalValue(SubSeq(t, p, intEnd - 1)) * PowerOfTen(fracLen)
                    + (IF hasDot THEN DecimalValue(SubSeq(t, intEnd + 1, fracEnd - 1)) ELSE 0)
      hasE == fracEnd <= Len(t) /\ t[fracEnd] \in {"e", "E"}
      expSigned == hasE /\ fracEnd + 1 <= Len(t) /\ t[fracEnd + 1] \in {"+", "-"}
      expFrom == IF expSigned THEN fracEnd + 2 ELSE fracEnd + 1
      expEnd == IF hasE THEN RunEnd(t, expFrom, DigitChars) ELSE expFrom
      hasExp == hasE /\ expEnd > expFrom
      exponent == IF hasExp THEN DecimalValue(SubSeq(t, expFrom, expEnd - 1)) ELSE 0
      expNegative == expSigned /\ t[fracEnd + 1] = "-"
      num == IF expNegative THEN mantissa ELSE mantissa * PowerOfTen(exponent)
      den == IF expNegative THEN PowerOfTen(fracLen + exponent) ELSE PowerOfTen(fracLen)
  IN IF StartsWithAt(t, p, <<"I", "n", "f", "i", "n", "i", "t", "y">>)
     THEN [kind |-> "Infinity", negative |-> negative]
     ELSE IF (intEnd - p) + fracLen = 0 THEN NaN
     ELSE [kind |-> "number", num |-> IF negative THEN -num ELSE num, den |-> den]

\* cvss >= n for the value parseFloat returned: false for NaN
AtLeast(cvss, n) ==
  CASE cvss.kind = "NaN" -> FALSE
    [] cvss.kind = "Infinity" -> ~cvss.negative
    [] cvss.kind = "number" -> cvss.num >= n * cvss.den

-----------------------------------------------------------------------------
(* shared/osv.ts: classification of the database's replies.  An optional   *)
(* field that is absent is a field the record does not have.               *)

Has(record, field) == field \in DOMAIN record

\* classifySeverity with > where the code has >=
classifySeverityStrict(vuln) ==
  IF ~Has(vuln, "severity") \/ Len(vuln.severity) = 0 THEN "unknown"
  ELSE LET cvss == parseFloat(vuln.severity[1].score)
       IN IF AtLeast(cvss, 9) /\ cvss # [kind |-> "number", num |-> 9 * cvss.den, den |-> cvss.den]
          THEN "critical"
          ELSE IF AtLeast(cvss, 7) THEN "high"
          ELSE IF AtLeast(cvss, 4) THEN "medium"
          ELSE "low"

\* classifySeverity(vuln.severity) of the vulnerability vuln
classifySeverity(vuln) ==
  IF ~Has(vuln, "severity") \/ Len(vuln.severity) = 0 THEN "unknown"
  ELSE LET cvss == parseFloat(vuln.severity[1].score)
       IN IF AtLeast(cvss, 9) THEN "critical"
          ELSE IF AtLeast(cvss, 7) THEN "high"
          ELSE IF AtLeast(cvss, 4) THEN "medium"
          ELSE "low"

\* (a) => a.package.name === dep.name && a.package.ecosystem === dep.ecosystem
MatchesPackage(a, dep) ==
  a.package.name = dep.name /\ a.package.ecosystem = dep.ecosystem

\* Array.prototype.find: the first matching affected entry, <<>> for none
FindAffected(vuln, dep) ==
  IF ~Has(vuln, "affected") THEN <<>>
  ELSE LET hits == {i \in 1..Len(vuln.affected) : MatchesPackage(vuln.affected[i], dep)}
       IN IF hits = {} THEN <<>>
          ELSE <<vuln.affected[CHOOSE i \in hits : \A j \in hits : i <= j]>>

\* event.fixed is truthy: present and not the empty string
IsFixedEvent(event) == Has(event, "fixed") /\ event.fixed # ""

\* the events of the ranges, flattened in declaration order
RECURSIVE EventsOf(_)
EventsOf(ranges) ==
  IF Len(ranges) = 0 THEN <<>> ELSE ranges[1].events \o EventsOf(Tail(ranges))

\* extractFixedVersion(vuln.affected, dep): the nested loops return at the
\* first fixed event
extractFixedVersion(vuln, dep) ==
  LET found == FindAffected(vuln, dep)
  IN IF found = <<>> \/ ~Has(found[1], "ranges") THEN Null
     ELSE LET fixes == SelectSeq(EventsOf(found[1].ranges), IsFixedEvent)
          IN IF Len(fixes) = 0 THEN Null ELSE Some(fixes[1].fixed)

\* lib/vulnerabilities.ts, inlined in scanVulnerabilities: break leaves the
\* loop over the events only, the loop over the ranges goes on and a later
\* range's first fixed event overwrites fixedVersion
RECURSIVE inlineFixedVersionLoop(_, _)
inlineFixedVersionLoop(ranges, fixedVersion) ==
  IF Len(ranges) = 0 THEN fixedVersion
  ELSE LET fixes == SelectSeq(ranges[1].events, IsFixedEvent)
       IN inlineFixedVersionLoop(Tail(ranges),
            IF Len(fixes) = 0 THEN fixedVersion ELSE Some(fixes[1].fixed))

inlineFixedVersion(vuln, dep) ==
  LET found == FindAffected(vuln, dep)
  IN IF found = <<>> \/ ~Has(found[1], "ranges") THEN Null
     ELSE inlineFixedVersionLoop(found[1].ranges, Null)

\* lib/vulnerabilities.ts, inlined in scanVulnerabilities: the same tiers
inlineSeverity(vuln) ==
  IF Has(vuln, "severity") /\ Len(vuln.severity) > 0
  THEN LET cvss == parseFloat(vuln.severity[1].score)
       IN IF AtLeast(cvss, 9) THEN "critical"
          ELSE IF AtLeast(cvss, 7) THEN "high"
          ELSE IF AtLeast(cvss, 4) THEN "medium"
          ELSE "low"
  ELSE "unknown"

-----------------------------------------------------------------------------
(* shared/parsers.ts: the manifest parsers.  A parser's outcome is         *)
(* [threw, deps]: whether the call threw, and the list it returned.        *)

Returned(deps) == [threw |-> FALSE, deps |-> deps]

Threw == [threw |-> TRUE, deps |-> <<>>]

ParsedDependency(name, version, ecosystem) ==
  [name |-> name, version |-> version, ecosystem |-> ecosystem]

\* String.prototype.split(sep) for a separator of one character
RECURSIVE Split(_, _)
Split(s, sep) ==
  LET hits == {i \in 1..Len(s) : s[i] = sep}
  IN IF hits = {} THEN <<s>>
     ELSE LET i == CHOOSE h \in hits : \A g \in hits : h <= g
          IN <<SubSeq(s, 1, i - 1)>> \o Split(Slice(s, i + 1), sep)

\* String.prototype.split(/\s+/) of a trimmed, non-empty string: its runs of
\* characters that are not white space
RECURSIVE SplitWhite(_)
SplitWhite(s) ==
  IF Len(s) = 0 THEN <<>>
  ELSE LET wordEnd == RunEnd(s, 1, Chars \ WhiteChars)
           next == RunEnd(s, wordEnd, WhiteChars)
       IN <<SubSeq(s, 1, wordEnd - 1)>> \o SplitWhite(Slice(s, next))

\* spec.replace(/^[\^~>=<]+/, "")
StripRangePrefix(spec) == Slice(spec, RunEnd(spec, 1, {"^", "~", ">", "=", "<"}))

\* the entries of one section of a parsed package.json; a value that is not
\* a string has no replace method: the call throws a TypeError
RECURSIVE SectionDeps(_)
SectionDeps(entries) ==
  IF Len(entries) = 0 THEN Returned(<<>>)
  ELSE IF ~Has(entries[1].spec, "string") THEN Threw
  ELSE LET rest == SectionDeps(Tail(entries))
       IN IF rest.threw THEN Threw
          ELSE Returned(<<ParsedDependency(entries[1].name,
                                           StripRangePrefix(entries[1].spec.string), "npm")>>
                          \o rest.deps)

\* pkg[section] for the two sections, in order; a section that is absent or
\* null is skipped
RECURSIVE SectionsDeps(_, _)
SectionsDeps(pkg, sections) ==
  IF Len(sections) = 0 THEN Returned(<<>>)
  ELSE LET first == IF Has(pkg, sections[1]) THEN SectionDeps(pkg[sections[1]])
                    ELSE Returned(<<>>)
           rest == SectionsDeps(pkg, Tail(sections))
       IN IF first.threw \/ rest.threw THEN Threw
          ELSE Returned(first.deps \o rest.deps)

\* the body of parsePackageJson's try block.  JSON.parse throws a
\* SyntaxError on text that is not JSON; reading a property of null throws
\* a TypeError; any other value that is not an object has no such property.
parsePackageJsonTry(raw) ==
  IF ~raw.json THEN Threw
  ELSE IF raw.value.type = "null" THEN Threw
  ELSE IF raw.value.type # "object" THEN Returned(<<>>)
  ELSE SectionsDeps(raw.value.fields, <<"dependencies", "devDependencies">>)

\* parsePackageJson without its catch block
parsePackageJsonNoCatch(raw) == parsePackageJsonTry(raw)

parsePackageJson(raw) ==
  IF parsePackageJsonTry(raw).threw THEN Returned(<<>>) ELSE parsePackageJsonTry(raw)

\* trimmed.match(/^([A-Za-z0-9_.-]+)\s*[=><~!]+\s*([0-9.]+)/): <<>> for no
\* match, else <<name, version>>.  The classes of neighbouring parts are
\* disjoint, so each part is the longest run of its class.
RequirementMatch(trimmed) ==
  LET nameEnd == RunEnd(trimmed, 1, NameChars)
      opFrom == RunEnd(trimmed, nameEnd, WhiteChars)
      opEnd == RunEnd(trimmed, opFrom, {"=", ">", "<", "~", "!"})
      versionFrom == RunEnd(trimmed, opEnd, WhiteChars)
      versionEnd == RunEnd(trimmed, versionFrom, DigitChars \cup {"."})
  IN IF nameEnd > 1 /\ opEnd > opFrom /\ versionEnd > versionFrom
     THEN <<SubSeq(trimmed, 1, nameEnd - 1), SubSeq(trimmed, versionFrom, versionEnd - 1)>>
     ELSE <<>>

RECURSIVE RequirementLines(_)
RequirementLines(lines) ==
  IF Len(lines) = 0 THEN <<>>
  ELSE LET trimmed == Trim(lines[1])
           match == RequirementMatch(trimmed)
       IN (IF Len(trimmed) = 0 \/ StartsWithAt(trimmed, 1, <<"#">>) \/ match = <<>>
           THEN <<>>
           ELSE <<ParsedDependency(match[1], match[2], "PyPI")>>)
            \o RequirementLines(Tail(lines))

parseRequirementsTxt(raw) == Returned(RequirementLines(Split(raw, "\n")))

\* raw.match(/require\s*\(([\s\S]*?)\)/): <<>> for no match, else <<the
\* captured text>>: the leftmost "require", white space, "(" that a ")"
\* follows, captured up to the first ")"
RequireBlock(raw) ==
  LET require == <<"r", "e", "q", "u", "i", "r", "e">>
      open(i) == RunEnd(raw, i + Len(require), WhiteChars)
      closes(i) == {j \in (open(i) + 1)..Len(raw) : raw[j] = ")"}
      starts == {i \in 1..Len(raw) :
                   /\ StartsWithAt(raw, i, require)
                   /\ open(i) <= Len(raw) /\ raw[open(i)] = "("
                   /\ closes(i) # {}}
  IN IF starts = {} THEN <<>>
     ELSE LET i == CHOOSE a \in starts : \A b \in starts : a <= b
              close == CHOOSE j \in closes(i) : \A k \in closes(i) : j <= k
          IN <<SubSeq(raw, open(i) + 1, close - 1)>>

RECURSIVE GoModLines(_)
GoModLines(lines) ==
  IF Len(lines) = 0 THEN <<>>
  ELSE LET trimmed == Trim(lines[1])
           parts == SplitWhite(trimmed)
       IN (IF Len(trimmed) = 0 \/ StartsWithAt(trimmed, 1, <<"/", "/">>) \/ Len(parts) < 2
           THEN <<>>
           ELSE <<ParsedDependency(parts[1],
                     IF StartsWithAt(parts[2], 1, <<"v">>) THEN Slice(parts[2], 2)
                     ELSE parts[2], "Go")>>)
            \o GoModLines(Tail(lines))

parseGoMod(raw) ==
  IF RequireBlock(raw) = <<>> THEN Returned(<<>>)
  ELSE Returned(GoModLines(Split(RequireBlock(raw)[1], "\n")))

-----------------------------------------------------------------------------
(* The vulnerability scan.  Four callers run the same loop:                *)
(*   "lib"   scanVulnerabilities of lib/vulnerabilities.ts, with severity  *)
(*           and fixed version computed inline;                            *)
(*   "web"   scanVulnerabilities that hands allDeps to scanDependencies;   *)
(*   "cli"   scanVulnerabilities of cli/analyzer.ts;                       *)
(*   "scanDependencies"  scanDependencies called with deps and batchSize.  *)

Scanners == {"lib", "web", "cli", "scanDependencies"}

BATCH_SIZE == 10

\* the manifests a scanner asks fetchFileContent for, in the order of its
\* Promise.all
ManifestNames(s) ==
  IF s = "cli" THEN <<"package.json", "requirements.txt">>
  ELSE <<"package.json", "requirements.txt", "go.mod">>

FileCall(name) == [op |-> "fetchFileContent", arg |-> name]

QueryCall(dep) == [op |-> "queryOSV", arg |-> dep]

\* queryOSV without its catch block and its res.ok test: a failed request
\* rejects
queryOSVNoCatch(database, dep) ==
  IF dep \notin DOMAIN database THEN [threw |-> FALSE, vulns |-> <<>>]
  ELSE IF database[dep].outcome # "ok" THEN [threw |-> TRUE, vulns |-> <<>>]
  ELSE IF ~Has(database[dep], "vulns") THEN [threw |-> FALSE, vulns |-> <<>>]
  ELSE [threw |-> FALSE, vulns |-> database[dep].vulns]

\* queryOSV: the reply's vulns, [] when the request throws, the response is
\* not OK or the reply has no vulns
queryOSV(database, dep) ==
  IF dep \notin DOMAIN database THEN [threw |-> FALSE, vulns |-> <<>>]
  ELSE IF database[dep].outcome # "ok" THEN [threw |-> FALSE, vulns |-> <<>>]
  ELSE IF ~Has(database[dep], "vulns") THEN [threw |-> FALSE, vulns |-> <<>>]
  ELSE [threw |-> FALSE, vulns |-> database[dep].vulns]

\* the record pushed for one vulnerability of one dependency (summary and
\* aliases, copied from the reply, are left out)
VulnerabilityResult(s, dep, vuln) ==
  [packageName |-> dep.name,
   currentVersion |-> dep.version,
   vulnId |-> vuln.id,
   severity |-> IF s = "lib" THEN inlineSeverity(vuln) ELSE classifySeverity(vuln),
   fixedVersion |-> IF s = "lib" THEN inlineFixedVersion(vuln, dep)
                    ELSE extractFixedVersion(vuln, dep)]

\* for (const vuln of results[j]) push
DepResults(s, dep, vulns) ==
  [k \in 1..Len(vulns) |-> VulnerabilityResult(s, dep, vulns[k])]

\* the records of a batch pushed from its last reply to its first
RECURSIVE BatchResultsReversed(_, _, _)
BatchResultsReversed(s, database, batch) ==
  IF Len(batch) = 0 THEN <<>>
  ELSE BatchResultsReversed(s, database, Tail(batch))
         \o DepResults(s, batch[1], queryOSV(database, batch[1]).vulns)

\* for (let j = 0; j < batch.length; j++) over the replies of one batch
RECURSIVE BatchResults(_, _, _)
BatchResults(s, database, batch) ==
  IF Len(batch) = 0 THEN <<>>
  ELSE DepResults(s, batch[1], queryOSV(database, batch[1]).vulns)
         \o BatchResults(s, database, Tail(batch))

\* the parser of a manifest
ParseManifest(name, raw) ==
  CASE name = "package.json" -> parsePackageJson(raw)
    [] name = "requirements.txt" -> parseRequirementsTxt(raw)
    [] name = "go.mod" -> parseGoMod(raw)

\* if (pkgJson) allDeps.push(...parsePackageJson(pkgJson)), and so on, over
\* the fetched manifests in order
RECURSIVE ParseFetched(_, _)
ParseFetched(names, contents) ==
  IF Len(names) = 0 THEN Returned(<<>>)
  ELSE LET first == IF contents[names[1]] = Null THEN Returned(<<>>)
                    ELSE ParseManifest(names[1], contents[names[1]][1])
           rest == ParseFetched(Tail(names), contents)
       IN IF first.threw \/ rest.threw THEN Threw
          ELSE Returned(first.deps \o rest.deps)

\* the replies of fetchDeployments, fetchMergedPRs and fetchWorkflowRuns
\* play no part
PipelineIdle ==
  /\ deployments = <<>> /\ mergedPRs = <<>> /\ workflowRuns = <<>> /\ scanResult = <<>>
  /\ task = AllPending
  /\ ResultsUnset

DepA == ParsedDependency(<<"a">>, <<"1", ".", "0">>, "npm")

DepB == ParsedDependency(<<"b">>, <<"2", ".", "0">>, "PyPI")

DepC == ParsedDependency(<<"c">>, <<"1", ".", "2">>, "Go")

\* a package.json whose parsed value is an object with these fields
PackageJson(fields) == [json |-> TRUE, value |-> [type |-> "object", fields |-> fields]]

Entry(name, spec) == [name |-> name, spec |-> [string |-> spec]]

\* {"dependencies": {"a": "^1.0"}}: DepA
PackageJsonA == PackageJson([dependencies |-> <<Entry(<<"a">>, <<"^", "1", ".", "0">>)>>])

PackageJsonFixtures ==
  {[json |-> FALSE],
   [json |-> TRUE, value |-> [type |-> "null"]],
   [json |-> TRUE, value |-> [type |-> "number"]],
   PackageJsonA,
   PackageJson([dependencies |-> <<Entry(<<"a">>, <<"^", "1", ".", "0">>)>>,
                devDependencies |-> <<[name |-> <<"d">>, spec |-> [number |-> 1]]>>]),
   PackageJson([devDependencies |-> <<Entry(<<"d">>, <<">", "=", "3">>)>>])}

\* "b==2.0": DepB
RequirementsB == <<"b", "=", "=", "2", ".", "0">>

RequirementsFixtures ==
  {RequirementsB,
   <<"#", " ", "x", "\n", "\n", " ", "b", " ", ">", "=", " ", "2", ".", "0", "\n", "z", "z">>,
   <<"-", "r", " ", "x", "\n", "b", "=", "=", "x">>}

\* "require (\n\tc v1.2\n)": DepC
GoModC ==
  <<"r", "e", "q", "u", "i", "r", "e", " ", "(", "\n", "\t", "c", " ", "v", "1", ".", "2",
    "\n", ")">>

GoModFixtures ==
  {GoModC,
   <<"m", "o", "d", "u", "l", "e", " ", "m", "\n">>,
   <<"r", "e", "q", "u", "i", "r", "e", " ", "c", " ", "v", "1", ".", "2">>,
   <<"r", "e", "q", "u", "i", "r", "e", "(", "\n", "/", "/", " ", "c", " ", "v", "1", "\n",
     "c", "\n", ")">>}

Files(pkgJson, reqTxt, goMod) ==
  [n \in {"package.json", "requirements.txt", "go.mod"} |->
     IF n = "package.json" THEN pkgJson ELSE IF n = "requirements.txt" THEN reqTxt ELSE goMod]

\* one reply of the database with these vulnerabilities
Ok(vulns) == [outcome |-> "ok", vulns |-> vulns]

Database(replyA, replyB, replyC) ==
  [d \in {DepA, DepB, DepC} |-> IF d = DepA THEN replyA ELSE IF d = DepB THEN replyB ELSE replyC]

ScoreFixtures ==
  {<<"9", ".", "0">>, <<"8", ".", "9">>, <<"7">>, <<"6", ".", "9", "5">>, <<"4", ".", "0">>,
   <<"3", ".", "9">>, <<"1", "0">>, <<>>, <<"C", "V", "S", "S", ":", "3">>, <<" ", "9">>,
   <<"1", "e", "1">>, <<"-", "9">>, <<"7", "x">>}

SeverityEntries == {[type |-> "CVSS_V3", score |-> sc] : sc \in ScoreFixtures}

\* a vulnerability without a severity field, and with each severity array
SeverityVulns ==
  {[id |-> "V1"]} \cup {[id |-> "V1", severity |-> sev] :
                          sev \in SeqsUpTo(SeverityEntries, MaxSeverityEntries)}

EventFixtures ==
  {<<[introduced |-> "0"]>>,
   <<[introduced |-> "0"], [fixed |-> "1.1"]>>,
   <<[fixed |-> "2.0"], [introduced |-> "2.5"], [fixed |-> "2.6"]>>,
   <<[introduced |-> "0", fixed |-> ""]>>}

RangeFixtures == {[type |-> "SEMVER", events |-> ev] : ev \in EventFixtures}

Affected(name, ecosystem, ranges) ==
  [package |-> [name |-> name, ecosystem |-> ecosystem], ranges |-> ranges]

OtherRanges == <<[type |-> "SEMVER", events |-> <<[fixed |-> "9.9"]>>]>>

\* the affected arrays: absent, empty, an entry of DepA with and without
\* ranges, alone or after the entry of another package or ecosystem
AffectedVulns ==
  {[id |-> "V1"], [id |-> "V1", affected |-> <<>>],
   [id |-> "V1", affected |-> <<[package |-> [name |-> <<"a">>, ecosystem |-> "npm"]]>>],
   [id |-> "V1", affected |-> <<Affected(<<"b">>, "npm", OtherRanges)>>]}
  \cup UNION {{[id |-> "V1", affected |-> <<Affected(<<"a">>, "npm", ranges)>>],
               [id |-> "V1", affected |-> <<Affected(<<"b">>, "npm", OtherRanges),
                                            Affected(<<"a">>, "npm", ranges)>>],
               [id |-> "V1", affected |-> <<Affected(<<"a">>, "PyPI", OtherRanges),
                                            Affected(<<"a">>, "npm", ranges),
                                            Affected(<<"a">>, "npm", OtherRanges)>>]} :
              ranges \in SeqsUpTo(RangeFixtures, MaxRanges)}

RepliesA ==
  {Ok(<<[id |-> "V1", severity |-> <<[type |-> "CVSS_V3", score |-> <<"9", ".", "8">>]>>],
        [id |-> "V2"]>>),
   Ok(<<>>), [outcome |-> "notok"], [outcome |-> "throws"]}

RepliesB == {Ok(<<[id |-> "V3"]>>), [outcome |-> "ok"], [outcome |-> "throws"]}

RepliesC == {Ok(<<[id |-> "V4"]>>), [outcome |-> "notok"]}

ScanStart ==
  /\ PipelineIdle /\ RequestIdle /\ UnitIdle /\ failing = {}
  /\ entry = (IF scanner = "cli" THEN "cli" ELSE "web")
  /\ fetched = <<>> /\ cursor = 0 /\ outstanding = {} /\ vulnerabilities = <<>>

\* a scan of a repository whose package.json declares DepA, against a
\* database that knows one vulnerability of it
InitScanOne(vulns) ==
  /\ scanner \in {"lib", "web", "cli"}
  /\ pc = "fetch"
  /\ files = Files(Some(PackageJsonA), Null, Null)
  /\ \E v \in vulns : osv = Database(Ok(<<v>>), Ok(<<>>), Ok(<<>>))
  /\ batchSize = BATCH_SIZE
  /\ allDeps = <<>>
  /\ ScanStart

InitSeverity == InitScanOne(SeverityVulns)

InitAffected == InitScanOne(AffectedVulns)

\* scanDependencies called with a list of dependencies and a batch size
InitBatches ==
  /\ scanner = "scanDependencies"
  /\ pc = "call"
  /\ files = <<>>
  /\ \E a \in RepliesA, b \in RepliesB, c \in RepliesC : osv = Database(a, b, c)
  /\ batchSize \in 1..MaxBatchSize \cup {BATCH_SIZE}
  /\ allDeps \in SeqsUpTo({DepA, DepB, DepC}, MaxDeps)
  /\ ScanStart

\* a scan of a repository with any of the three manifests, present or not
InitManifests ==
  /\ scanner \in {"lib", "web", "cli"}
  /\ pc = "fetch"
  /\ \E p \in {Null} \cup {Some(f) : f \in PackageJsonFixtures},
        r \in {Null} \cup {Some(f) : f \in RequirementsFixtures},
        g \in {Null} \cup {Some(f) : f \in GoModFixtures} : files = Files(p, r, g)
  /\ osv = Database(Ok(<<[id |-> "V1"]>>), Ok(<<[id |-> "V3"]>>), Ok(<<[id |-> "V4"]>>))
  /\ batchSize = BATCH_SIZE
  /\ allDeps = <<>>
  /\ ScanStart

InitScan == InitSeverity \/ InitAffected \/ InitBatches \/ InitManifests

FetchManifests ==
  /\ pc = "fetch"
  /\ LET names == ManifestNames(scanner)
     IN /\ fetched' = [n \in {names[i] : i \in 1..Len(names)} |-> files[n]]
        /\ calls' = calls \o [i \in 1..Len(names) |-> FileCall(names[i])]
  /\ pc' = "parse"
  /\ UNCHANGED <<inputVars, error, unitVars, cacheVars, task, deploymentFrequency, leadTimeForChanges, changeFailureRate,
                 vulnerabilities, doraMetrics, suggestions, overallScore,
                 outstanding, scanner, files, osv, batchSize, allDeps, cursor, repoInput, id, response, stored, body>>

\* scanVulnerabilities after its Promise.all: the manifests that are present
\* are parsed, and without dependencies the scan returns []
ParseManifests ==
  /\ pc = "parse"
  /\ LET parsed == ParseFetched(ManifestNames(scanner), fetched)
     IN /\ allDeps' = parsed.deps
        /\ pc' = IF parsed.threw THEN "rejected"
                 ELSE IF Len(parsed.deps) = 0 THEN "returned" ELSE "query"
  /\ cursor' = 0
  /\ UNCHANGED <<inputVars, error, unitVars, cacheVars, task, deploymentFrequency, leadTimeForChanges, changeFailureRate,
                 vulnerabilities, doraMetrics, suggestions, overallScore,
                 outstanding, scanner, files, fetched, osv, batchSize, requestVars>>

\* scanDependencies(deps, batchSize) called on its own
CallScanDependencies ==
  /\ pc = "call" /\ scanner = "scanDependencies"
  /\ pc' = IF Len(allDeps) = 0 THEN "returned" ELSE "query"
  /\ cursor' = 0
  /\ UNCHANGED <<inputVars, error, unitVars, cacheVars, task, deploymentFrequency, leadTimeForChanges, changeFailureRate,
                 vulnerabilities, doraMetrics, suggestions, overallScore,
                 outstanding, scanner, files, fetched, osv, batchSize, allDeps, requestVars>>

\* one round of the batch loop: the queries of the batch are awaited
\* together, their records pushed in the order of the batch; after the last
\* batch the scan returns
QueryBatch ==
  /\ pc = "query" /\ cursor < Len(allDeps)
  /\ LET batch == SubSeq(allDeps, cursor + 1, Min2(cursor + batchSize, Len(allDeps)))
     IN /\ calls' = calls \o [j \in 1..Len(batch) |-> QueryCall(batch[j])]
        /\ IF \E j \in 1..Len(batch) : queryOSV(osv, batch[j]).threw
           THEN pc' = "rejected" /\ UNCHANGED <<vulnerabilities, cursor>>
           ELSE /\ vulnerabilities' = vulnerabilities \o BatchResults(scanner, osv, batch)
                /\ cursor' = cursor + batchSize
                /\ pc' = IF cursor + batchSize < Len(allDeps) THEN "query" ELSE "returned"
  /\ UNCHANGED <<inputVars, error, unitVars, cacheVars, task, deploymentFrequency, leadTimeForChanges, changeFailureRate,
                 doraMetrics, suggestions, overallScore,
                 outstanding, scanner, files, fetched, osv, batchSize, allDeps, repoInput, id, response, stored, body>>

\* the batch loop of scanDependencies with each query settling on its own:
\* batch.map issues the queries of the batch; Promise.all resolves when the
\* last has settled (queryOSV never rejects); then the records are pushed
IssueBatch ==
  /\ pc = "query" /\ cursor < Len(allDeps)
  /\ LET last == Min2(cursor + batchSize, Len(allDeps))
     IN /\ calls' = calls \o [j \in 1..(last - cursor) |-> QueryCall(allDeps[cursor + j])]
        /\ outstanding' = outstanding \cup ((cursor + 1)..last)
  /\ pc' = "await"
  /\ UNCHANGED <<inputVars, error, unitVars, cacheVars, task, deploymentFrequency, leadTimeForChanges,
                 changeFailureRate, vulnerabilities, doraMetrics, suggestions, overallScore,
                 scanner, files, fetched, osv, batchSize, allDeps, cursor,
                 repoInput, id, response, stored, body>>

\* one query settles: its fetch has resolved or thrown, and queryOSV resolves
SettleQuery ==
  /\ pc = "await"
  /\ \E i \in outstanding : outstanding' = outstanding \ {i}
  /\ UNCHANGED <<inputVars, error, unitVars, cacheVars, task, deploymentFrequency, leadTimeForChanges,
                 changeFailureRate, vulnerabilities, doraMetrics, suggestions, overallScore,
                 scanner, files, fetched, osv, batchSize, allDeps, cursor, pc, requestVars>>

\* the loop going on without awaiting the queries of the batch
CollectBatchEarly ==
  /\ pc = "await"
  /\ LET batch == SubSeq(allDeps, cursor + 1, Min2(cursor + batchSize, Len(allDeps)))
     IN vulnerabilities' = vulnerabilities \o BatchResults(scanner, osv, batch)
  /\ cursor' = cursor + batchSize
  /\ pc' = IF cursor + batchSize < Len(allDeps) THEN "query" ELSE "returned"
  /\ UNCHANGED <<inputVars, error, unitVars, cacheVars, task, deploymentFrequency, leadTimeForChanges,
                 changeFailureRate, doraMetrics, suggestions, overallScore,
                 scanner, files, fetched, osv, batchSize, allDeps, outstanding, requestVars>>

CollectBatch ==
  /\ pc = "await" /\ outstanding = {}
  /\ LET batch == SubSeq(allDeps, cursor + 1, Min2(cursor + batchSize, Len(allDeps)))
     IN vulnerabilities' = vulnerabilities \o BatchResults(scanner, osv, batch)
  /\ cursor' = cursor + batchSize
  /\ pc' = IF cursor + batchSize < Len(allDeps) THEN "query" ELSE "returned"
  /\ UNCHANGED <<inputVars, error, unitVars, cacheVars, task, deploymentFrequency, leadTimeForChanges,
                 changeFailureRate, doraMetrics, suggestions, overallScore,
                 scanner, files, fetched, osv, batchSize, allDeps, outstanding, requestVars>>

\* scanDependencies against a database in which DepA's query fails or not
InitOutstanding ==
  /\ scanner = "scanDependencies"
  /\ pc = "call"
  /\ files = <<>>
  /\ \E a \in {Ok(<<[id |-> "V1"]>>), [outcome |-> "throws"]} :
       osv = Database(a, Ok(<<[id |-> "V3"]>>), [outcome |-> "notok"])
  /\ batchSize \in 1..MaxBatchSize \cup {BATCH_SIZE}
  /\ allDeps \in SeqsUpTo({DepA, DepB, DepC}, MaxDeps)
  /\ ScanStart

NextBatch ==
  \/ CallScanDependencies
  \/ IssueBatch
  \/ SettleQuery
  \/ CollectBatch

BatchSpec == InitOutstanding /\ [][NextBatch]_vars

NextScan ==
  \/ FetchManifests
  \/ ParseManifests
  \/ CallScanDependencies
  \/ QueryBatch

ScanSpec == InitScan /\ [][NextScan]_vars

-----------------------------------------------------------------------------
(* The entry points up to the start of the pipeline: POST /api/analyze     *)
(* and the CLI's analyze validate the repository string first.             *)

DotGit == <<".", "g", "i", "t">>

GithubCom == <<"g", "i", "t", "h", "u", "b", ".", "c", "o", "m", "/">>

\* input.trim().replace(/\.git$/, "")
Cleaned(input) ==
  LET trimmed == Trim(input)
  IN IF EndsWith(trimmed, DotGit) THEN SubSeq(trimmed, 1, Len(trimmed) - Len(DotGit))
     ELSE trimmed

\* [A-Za-z0-9_.-]+\/[A-Za-z0-9_.-]+ matched at index from: <<>> for no match,
\* else <<owner, repo, the index after the match>>.  "/" is not in the class,
\* so each part is the longest run.
OwnerRepoAt(str, from) ==
  LET ownerEnd == RunEnd(str, from, NameChars)
      repoEnd == RunEnd(str, ownerEnd + 1, NameChars)
  IN IF ownerEnd > from /\ ownerEnd <= Len(str) /\ str[ownerEnd] = "/" /\ repoEnd > ownerEnd + 1
     THEN <<SubSeq(str, from, ownerEnd - 1), SubSeq(str, ownerEnd + 1, repoEnd - 1), repoEnd>>
     ELSE <<>>

Identifier(owner, repo) == [owner |-> owner, repo |-> repo]

\* parseRepoSlug accepting only the slug form
parseRepoSlugSlugOnly(input) ==
  LET cleaned == Cleaned(input)
      slugMatch == OwnerRepoAt(cleaned, 1)
  IN IF slugMatch # <<>> /\ slugMatch[3] = Len(cleaned) + 1
     THEN [threw |-> FALSE, id |-> Identifier(slugMatch[1], slugMatch[2])]
     ELSE [threw |-> TRUE, id |-> <<>>]

\* parseRepoSlug with a slug pattern that is not anchored at the end
parseRepoSlugUnanchored(input) ==
  LET cleaned == Cleaned(input)
      slugMatch == OwnerRepoAt(cleaned, 1)
  IN IF slugMatch # <<>>
     THEN [threw |-> FALSE, id |-> Identifier(slugMatch[1], slugMatch[2])]
     ELSE [threw |-> TRUE, id |-> <<>>]

\* parseRepoSlug: the leftmost github.com/owner/repo anywhere in the cleaned
\* input, else the whole input as owner/repo, else it throws
parseRepoSlug(input) ==
  LET cleaned == Cleaned(input)
      urlStarts == {i \in 1..Len(cleaned) :
                      /\ StartsWithAt(cleaned, i, GithubCom)
                      /\ OwnerRepoAt(cleaned, i + Len(GithubCom)) # <<>>}
      slugMatch == OwnerRepoAt(cleaned, 1)
  IN IF urlStarts # {}
     THEN LET i == CHOOSE a \in urlStarts : \A b \in urlStarts : a <= b
              urlMatch == OwnerRepoAt(cleaned, i + Len(GithubCom))
          IN [threw |-> FALSE, id |-> Identifier(urlMatch[1], urlMatch[2])]
     ELSE IF slugMatch # <<>> /\ slugMatch[3] = Len(cleaned) + 1
     THEN [threw |-> FALSE, id |-> Identifier(slugMatch[1], slugMatch[2])]
     ELSE [threw |-> TRUE, id |-> <<>>]

Call(op, arg) == [op |-> op, arg |-> arg]

OwnerFixtures == {<<"o">>, <<"a", ".", "b">>, <<"g", "i", "t", "h", "u", "b", ".", "c", "o", "m">>}

NameFixtures ==
  {<<"r">>, <<"A", "-", "1", "_">>, <<"n", ".", "j", "s">>, <<"g", "i", "t">>,
   <<"x", ".", "g", "i", "t">>, DotGit, <<".", "g", "i", "t", ".">>}

Slug(owner, name) == owner \o <<"/">> \o name

Url(owner, name) == <<"h", "t", "t", "p", "s", ":", "/", "/">> \o GithubCom \o Slug(owner, name)

\* strings that are neither a slug nor a github.com URL
MalformedInputs ==
  {<<>>, <<" ">>, <<"r">>, <<"o", "/">>, <<"/", "r">>, <<"o", "/", "r", "/", "x">>,
   <<"o", " ", "/", "r">>, <<"o", "/", "r", "?">>,
   <<"h", "t", "t", "p", "s", ":", "/", "/", "g", "i", "t", "l", "a", "b", ".", "c", "o", "m",
     "/", "o", "/", "r">>,
   <<"h", "t", "t", "p", "s", ":", "/", "/">> \o GithubCom \o <<"o">>}

RepoInputs ==
  {Slug(o, n) : o \in OwnerFixtures, n \in NameFixtures}
    \cup {Url(o, n) : o \in OwnerFixtures, n \in NameFixtures}
    \cup {<<" ">> \o Slug(<<"o">>, <<"r">>) \o <<"\n">>}
    \cup MalformedInputs

\* the tasks of POST's Promise.all, and the messages a rejection carries
PostTasks == {"fetchRecentCommits", "computeDORAMetrics", "scanVulnerabilities"}

Messages == {"API rate limit exceeded", "HTTP 403", "Network failure"}

\* what an earlier request stored under the key, and what this one assembles
StoredAnalysis == [fetchedAt |-> "earlier", overallScore |-> 90]

Analysis == [fetchedAt |-> "now", overallScore |-> 85]

InitRequest ==
  /\ entry \in Entries
  /\ pc = "request"
  /\ repoInput \in RepoInputs
  /\ id = <<>> /\ response = 0 /\ calls = <<>> /\ body = Null
  /\ IF entry = "web"
     THEN /\ stored \in {Null, Some(StoredAnalysis)}
          /\ failing \in {{}} \cup {{t} : t \in PostTasks} \cup {PostTasks}
     ELSE stored = Null /\ failing = {}
  /\ ScanIdle /\ PipelineIdle /\ UnitIdle /\ CacheIdle
  /\ vulnerabilities = <<>>

\* POST up to its cache lookup: a missing or empty repo field and a string
\* parseRepoSlug rejects are answered with 400
PostValidate ==
  /\ pc = "request" /\ entry = "web"
  /\ IF Len(repoInput) = 0 \/ parseRepoSlug(repoInput).threw
     THEN pc' = "responded" /\ response' = 400 /\ id' = id
     ELSE pc' = "validated" /\ response' = response /\ id' = parseRepoSlug(repoInput).id
  /\ UNCHANGED <<inputVars, error, unitVars, cacheVars, scanVars, task, deploymentFrequency, leadTimeForChanges,
                 changeFailureRate, vulnerabilities, doraMetrics, suggestions, overallScore,
                 repoInput, calls, stored, body>>

\* { ...cached, _cached: true }
Cached(cached) ==
  [fetchedAt |-> cached.fetchedAt, overallScore |-> cached.overallScore, _cached |-> TRUE]

\* POST's cache lookup: cacheGet resolves to what the cache yields for the
\* key (null when nothing is stored or Redis is unavailable); a stored
\* analysis is returned with _cached: true, null goes on to the pipeline
PostCacheLookup ==
  /\ pc = "validated" /\ entry = "web"
  /\ calls' = Append(calls, Call("cacheGet", id))
  /\ LET cached == stored
     IN IF cached # Null
        THEN pc' = "responded" /\ response' = 200 /\ body' = Some(Cached(cached[1]))
        ELSE pc' = "missed" /\ response' = response /\ body' = body
  /\ UNCHANGED <<inputVars, error, unitVars, cacheVars, scanVars, task, deploymentFrequency, leadTimeForChanges,
                 changeFailureRate, vulnerabilities, doraMetrics, suggestions, overallScore,
                 repoInput, id, stored>>

\* POST's Promise.all: each task runs up to its first request
PostStart ==
  /\ pc = "missed" /\ entry = "web"
  /\ calls' = calls \o <<Call("fetchRecentCommits", id), Call("fetchDeployments", id),
                         Call("fetchMergedPullRequests", id), Call("fetchWorkflowRuns", id),
                         Call("fetchFileContent", id)>>
  /\ pc' = "started"
  /\ UNCHANGED <<inputVars, error, unitVars, cacheVars, scanVars, task, deploymentFrequency, leadTimeForChanges,
                 changeFailureRate, vulnerabilities, doraMetrics, suggestions, overallScore,
                 repoInput, id, response, stored, body>>

\* POST that stores and returns what it has whether or not a task rejected
PostCompleteAnyway ==
  /\ pc = "started" /\ entry = "web"
  /\ calls' = Append(calls, Call("cacheSet", id))
  /\ \E written \in BOOLEAN : stored' = IF written THEN Some(Analysis) ELSE stored
  /\ pc' = "responded" /\ response' = 200 /\ body' = Some(Analysis)
  /\ UNCHANGED <<inputVars, error, unitVars, cacheVars, scanVars, task, deploymentFrequency, leadTimeForChanges,
                 changeFailureRate, vulnerabilities, doraMetrics, suggestions, overallScore,
                 repoInput, id>>

\* the three tasks have resolved: the analysis is assembled, stored with
\* cacheSet (which stores nothing when Redis is unavailable) and returned
PostComplete ==
  /\ pc = "started" /\ entry = "web"
  /\ failing = {}
  /\ calls' = Append(calls, Call("cacheSet", id))
  /\ \E written \in BOOLEAN : stored' = IF written THEN Some(Analysis) ELSE stored
  /\ pc' = "responded" /\ response' = 200 /\ body' = Some(Analysis)
  /\ UNCHANGED <<inputVars, error, unitVars, cacheVars, scanVars, task, deploymentFrequency, leadTimeForChanges,
                 changeFailureRate, vulnerabilities, doraMetrics, suggestions, overallScore,
                 repoInput, id>>

\* a task has rejected: the catch block answers 429 for a message holding
\* "rate limit" or "403", 500 otherwise
PostFail ==
  /\ pc = "started" /\ entry = "web"
  /\ failing # {}
  /\ \E message \in Messages :
       /\ error' = Some(message)
       /\ response' = IF message \in {"API rate limit exceeded", "HTTP 403"} THEN 429 ELSE 500
  /\ pc' = "responded"
  /\ UNCHANGED <<inputVars, unitVars, cacheVars, scanVars, task, deploymentFrequency, leadTimeForChanges,
                 changeFailureRate, vulnerabilities, doraMetrics, suggestions, overallScore,
                 repoInput, id, calls, stored, body>>

\* analyze: parseRepoSlug throws out of analyze before createOctokit
AnalyzeValidate ==
  /\ pc = "request" /\ entry = "cli"
  /\ IF parseRepoSlug(repoInput).threw
     THEN pc' = "threw" /\ id' = id
     ELSE pc' = "validated" /\ id' = parseRepoSlug(repoInput).id
  /\ UNCHANGED <<inputVars, error, unitVars, cacheVars, scanVars, task, deploymentFrequency, leadTimeForChanges,
                 changeFailureRate, vulnerabilities, doraMetrics, suggestions, overallScore,
                 repoInput, response, calls, stored, body>>

\* analyze's Promise.all: each task runs up to its first request
AnalyzeStart ==
  /\ pc = "validated" /\ entry = "cli"
  /\ calls' = calls \o <<Call("fetchDeployments", id), Call("fetchMergedPRs", id),
                         Call("fetchWorkflowRuns", id), Call("fetchFileContent", id)>>
  /\ pc' = "started"
  /\ UNCHANGED <<inputVars, error, unitVars, cacheVars, scanVars, task, deploymentFrequency, leadTimeForChanges,
                 changeFailureRate, vulnerabilities, doraMetrics, suggestions, overallScore,
                 repoInput, id, response, stored, body>>

NextRequest ==
  \/ PostValidate
  \/ PostCacheLookup
  \/ PostStart
  \/ PostComplete
  \/ PostFail
  \/ AnalyzeValidate
  \/ AnalyzeStart

RequestSpec == InitRequest /\ [][NextRequest]_vars

-----------------------------------------------------------------------------
(* cli/riskEngine.ts: the burnout risk score.  A fraction is kept exactly  *)
(* as [num, den] with den >= 0; den = 0 with num > 0 is Infinity.  Hours   *)
(* and percentages are in tenths, as the metric functions return them, and *)
(* sentimentNegativeRatio in hundredths.                                   *)

ELITE_LEAD_TIME_HOURS == 240

ELITE_FAILURE_RATE_PCT == 50

MAX_LEAD_TIME_HOURS == 7200

MAX_FAILURE_RATE_PCT == 1000

RECURSIVE GCD(_, _)
GCD(a, b) == IF b = 0 THEN a ELSE GCD(b, a % b)

\* num/den in lowest terms
Fraction(num, den) ==
  LET g == GCD(Abs(num), Abs(den))
      sign == IF den < 0 THEN -1 ELSE 1
  IN IF g = 0 THEN [num |-> 0, den |-> 0]
     ELSE [num |-> sign * (num \div g), den |-> sign * (den \div g)]

Whole(n) == Fraction(n, 1)

Leq(a, b) == a.num * b.den <= b.num * a.den

MathMin(a, b) == IF Leq(a, b) THEN a ELSE b

MathMax(a, b) == IF Leq(a, b) THEN b ELSE a

Plus(a, b) == Fraction(a.num * b.den + b.num * a.den, a.den * b.den)

Times(a, b) == Fraction(a.num * b.num, a.den * b.den)

\* Math.round of a finite fraction: the nearest integer, the larger on a tie
MathRound(a) == (2 * a.num + a.den) \div (2 * a.den)

CYCLE_TIME_WEIGHT == Fraction(6, 10)

FAILURE_RATE_WEIGHT == Fraction(4, 10)

SENTIMENT_NEGATIVE_MULTIPLIER == Fraction(5, 10)

\* normalizeDelta without the final Math.min / Math.max
normalizeDeltaUnclamped(actual, eliteBenchmark, maxCap) ==
  IF actual <= eliteBenchmark THEN Whole(0)
  ELSE Fraction(actual - eliteBenchmark, maxCap - eliteBenchmark)

normalizeDelta(actual, eliteBenchmark, maxCap) ==
  IF actual <= eliteBenchmark THEN Whole(0)
  ELSE LET delta == Fraction(actual - eliteBenchmark, maxCap - eliteBenchmark)
       IN MathMin(MathMax(delta, Whole(0)), Whole(1))

classifyRiskLevel(score) ==
  IF score >= 75 THEN "critical"
  ELSE IF score >= 50 THEN "high"
  ELSE IF score >= 25 THEN "moderate"
  ELSE "low"

RiskInput(medianHours, percentage, sentimentNegativeRatio) ==
  [medianHours |-> medianHours, percentage |-> percentage,
   sentimentNegativeRatio |-> sentimentNegativeRatio]

\* computeRiskScore without the clamp of the score to [0, 100]
computeRiskScoreUncapped(input) ==
  LET cycleTimeDelta ==
        normalizeDelta(input.medianHours, ELITE_LEAD_TIME_HOURS, MAX_LEAD_TIME_HOURS)
      failureRateDelta ==
        normalizeDelta(input.percentage, ELITE_FAILURE_RATE_PCT, MAX_FAILURE_RATE_PCT)
      ratio == input.sentimentNegativeRatio
      sentimentMultiplier ==
        IF ratio # Null /\ ratio[1] > 0
        THEN Plus(Whole(1), Times(Fraction(ratio[1], 100), SENTIMENT_NEGATIVE_MULTIPLIER))
        ELSE Whole(1)
      rawScore ==
        Times(Plus(Times(cycleTimeDelta, CYCLE_TIME_WEIGHT),
                   Times(failureRateDelta, FAILURE_RATE_WEIGHT)),
              sentimentMultiplier)
      score == MathRound(Times(rawScore, Whole(100)))
  IN [cycleTimeDelta |-> ToFixed(cycleTimeDelta.num, cycleTimeDelta.den, 10000),
      failureRateDelta |-> ToFixed(failureRateDelta.num, failureRateDelta.den, 10000),
      sentimentMultiplier |-> ToFixed(sentimentMultiplier.num, sentimentMultiplier.den, 100),
      score |-> score,
      level |-> classifyRiskLevel(score)]

\* computeRiskScore: the RiskBreakdown without its summary text;
\* cycleTimeDelta and failureRateDelta in 1/10000, sentimentMultiplier in
\* hundredths
computeRiskScore(input) ==
  LET cycleTimeDelta ==
        normalizeDelta(input.medianHours, ELITE_LEAD_TIME_HOURS, MAX_LEAD_TIME_HOURS)
      failureRateDelta ==
        normalizeDelta(input.percentage, ELITE_FAILURE_RATE_PCT, MAX_FAILURE_RATE_PCT)
      ratio == input.sentimentNegativeRatio
      sentimentMultiplier ==
        IF ratio # Null /\ ratio[1] > 0
        THEN Plus(Whole(1), Times(Fraction(ratio[1], 100), SENTIMENT_NEGATIVE_MULTIPLIER))
        ELSE Whole(1)
      rawScore ==
        Times(Plus(Times(cycleTimeDelta, CYCLE_TIME_WEIGHT),
                   Times(failureRateDelta, FAILURE_RATE_WEIGHT)),
              sentimentMultiplier)
      score == Min2(100, Max2(0, MathRound(Times(rawScore, Whole(100)))))
  IN [cycleTimeDelta |-> ToFixed(cycleTimeDelta.num, cycleTimeDelta.den, 10000),
      failureRateDelta |-> ToFixed(failureRateDelta.num, failureRateDelta.den, 10000),
      sentimentMultiplier |-> ToFixed(sentimentMultiplier.num, sentimentMultiplier.den, 100),
      score |-> score,
      level |-> classifyRiskLevel(score)]

\* actual values on both sides of each benchmark and cap
DeltaActuals == {-100, 0, 50, 100, 240, 241, 525, 1000, 3720, 7199, 7200, 10000}

\* benchmark and cap: those of the engine, and a benchmark at or above its cap
DeltaScales == {<<240, 7200>>, <<50, 1000>>, <<0, 1>>, <<-50, 100>>, <<100, 100>>, <<1000, 50>>}

RiskHours == {0, 120, 240, 1000, 2000, 3720, 5000, 7200, 9000}

RiskPercents == {0, 50, 125, 300, 525, 600, 1000}

\* absent, -0.5, 0, 0.5, 0.8, 1.0, 2.5
RiskRatios == {Null, Some(-50), Some(0), Some(50), Some(80), Some(100), Some(250)}

InitCall ==
  /\ pc = "invoke" /\ result = <<>>
  /\ entry = "cli"
  /\ PipelineIdle /\ ScanIdle /\ RequestIdle /\ failing = {}

InitRisk ==
  /\ InitCall
  /\ \/ \E a \in DeltaActuals, s \in DeltaScales :
          call = [fn |-> "normalizeDelta", actual |-> a, eliteBenchmark |-> s[1], maxCap |-> s[2]]
     \/ \E h \in RiskHours, p \in RiskPercents, r \in RiskRatios :
          call = [fn |-> "computeRiskScore", input |-> RiskInput(h, p, r)]
     \/ \E n \in 0..100 : call = [fn |-> "classifyRiskLevel", score |-> n]

Return(value) ==
  /\ result' = <<value>>
  /\ pc' = "returned"
  /\ UNCHANGED <<inputVars, error, cacheVars, scanVars, requestVars, task, deploymentFrequency,
                 leadTimeForChanges, changeFailureRate, vulnerabilities, doraMetrics,
                 suggestions, overallScore, call>>

CallNormalizeDelta ==
  /\ pc = "invoke" /\ call.fn = "normalizeDelta"
  /\ Return(normalizeDelta(call.actual, call.eliteBenchmark, call.maxCap))

CallClassifyRiskLevel ==
  /\ pc = "invoke" /\ call.fn = "classifyRiskLevel"
  /\ Return(classifyRiskLevel(call.score))

CallComputeRiskScore ==
  /\ pc = "invoke" /\ call.fn = "computeRiskScore"
  /\ Return(computeRiskScore(call.input))

NextRisk ==
  \/ CallNormalizeDelta
  \/ CallClassifyRiskLevel
  \/ CallComputeRiskScore

RiskSpec == InitRisk /\ [][NextRisk]_vars

-----------------------------------------------------------------------------
(* cli/hygieneCheck.ts: the stale pull request check.  Times are minutes.  *)
(* A pull request of the reply carries, besides the fields the code reads, *)
(* reviews: the number of reviews the repository holds for it.             *)

HygieneCheck(status, count, listed, ellipsis) ==
  [name |-> "Stale PR Review", status |-> status,
   count |-> count, listed |-> listed, ellipsis |-> ellipsis]

\* pr.requested_reviewers?.length ?? 0
RequestedReviewers(pr) ==
  IF pr.requested_reviewers = Null THEN 0 ELSE pr.requested_reviewers[1]

\* checkStalePRs: reply is what octokit.pulls.list resolved or rejected
\* with, now is Date.now(); the detail is kept as the count, the numbers
\* listed and whether the ellipsis follows
checkStalePRs(reply, now, maxHours) ==
  IF reply.rejected THEN HygieneCheck("warn", 0, <<>>, FALSE)
  ELSE LET stalePRs ==
             SelectSeq(reply.data,
                       LAMBDA pr : /\ now - pr.created_at > maxHours * 60
                                   /\ RequestedReviewers(pr) > 0)
       IN IF Len(stalePRs) = 0 THEN HygieneCheck("pass", 0, <<>>, FALSE)
          ELSE HygieneCheck("fail", Len(stalePRs),
                            [i \in 1..Min2(5, Len(stalePRs)) |-> stalePRs[i].number],
                            Len(stalePRs) > 5)

DEFAULT_MAX_REVIEW_WAIT_HOURS == 72

\* Date.now() at the call
HygieneNows == {10000, 20001}

\* opened 71 h, 72 h, 72 h 1 min and 100 h before the call
PullAges == {4260, 4320, 4321, 6000}

PullShapes ==
  [age : PullAges, requested_reviewers : {Null, Some(0), Some(1)}, reviews : {0, 1}]

Numbered(shapes, now) ==
  [i \in 1..Len(shapes) |->
     [number |-> i, created_at |-> now - shapes[i].age,
      requested_reviewers |-> shapes[i].requested_reviewers, reviews |-> shapes[i].reviews]]

PullReplies(now) ==
  {[rejected |-> TRUE, data |-> <<>>]}
    \cup {[rejected |-> FALSE, data |-> Numbered(shapes, now)] :
            shapes \in SeqsUpTo(PullShapes, MaxPulls)}
    \cup {[rejected |-> FALSE,
           data |-> Numbered(Repeat([age |-> 12000, requested_reviewers |-> Some(2),
                                     reviews |-> 0], 7), now)]}

InitHygiene ==
  /\ InitCall
  /\ \E now \in HygieneNows : \E reply \in PullReplies(now) :
       call = [fn |-> "checkStalePRs", reply |-> reply, now |-> now,
               maxHours |-> DEFAULT_MAX_REVIEW_WAIT_HOURS]

CallCheckStalePRs ==
  /\ pc = "invoke" /\ call.fn = "checkStalePRs"
  /\ Return(checkStalePRs(call.reply, call.now, call.maxHours))

NextHygiene == CallCheckStalePRs

HygieneSpec == InitHygiene /\ [][NextHygiene]_vars

-----------------------------------------------------------------------------
(* lib/metrics.ts: computeMTTR called on the runs fetchWorkflowRuns        *)
(* resolved to, in the order it returned them                              *)

RestoreTimes == {0, 90, 180}

RestoreRuns ==
  {Run(k[1], k[2], t, b) :
     k \in {<<"completed", "failure">>, <<"completed", "success">>, <<"in_progress", "null">>},
     t \in RestoreTimes, b \in {"main", "feature"}}

InitRestore ==
  /\ InitCall
  /\ \E runs \in SeqsUpTo(RestoreRuns, MaxRuns) : call = [fn |-> "computeMTTR", runs |-> runs]

\* the samples are kept beside the returned meanTimeToRestore
CallComputeMTTR ==
  /\ pc = "invoke" /\ call.fn = "computeMTTR"
  /\ Return([restorationTimes |-> restorationTimes(call.runs),
             meanTimeToRestore |-> computeMTTR(call.runs)])

NextRestore == CallComputeMTTR

RestoreSpec == InitRestore /\ [][NextRestore]_vars

-----------------------------------------------------------------------------
(* The cache module: one shared Redis client, replaced after an error      *)

CacheOps == {"cacheGet", "cacheSet", "cacheDelete"}

\* a call that has run getRedis and client.connect() and awaits the latter
Awaiting(op, client) == [op |-> op, client |-> client, at |-> "connect", value |-> "none"]

\* a call whose promise has resolved
Resolved(op, value) == [op |-> op, client |-> 0, at |-> "resolved", value |-> value]

InitCache ==
  /\ entry = "web" /\ pc = "cache"
  /\ PipelineIdle /\ ScanIdle /\ RequestIdle /\ UnitIdle /\ failing = {}

\* the handler registered on every client: redis?.disconnect(); redis = null
\* (redis is the module's variable, read when the event is handled)
OnError ==
  /\ clients' = IF redis # Null THEN [clients EXCEPT ![redis[1]] = "disconnected"] ELSE clients
  /\ redis' = Null

\* a handler that disconnects and discards the client it was registered on
OnErrorOfOwnClient(c) ==
  /\ clients' = [clients EXCEPT ![c] = "disconnected"]
  /\ redis' = IF redis = Some(c) THEN Null ELSE redis

\* a client emits "error"
ErrorEventOwn ==
  /\ pc = "cache"
  /\ \E c \in 1..Len(clients) :
       /\ OnErrorOfOwnClient(c)
       /\ emitter' = c
  /\ UNCHANGED <<inputVars, error, unitVars, scanVars, requestVars, task, deploymentFrequency,
                 leadTimeForChanges, changeFailureRate, vulnerabilities, doraMetrics,
                 suggestions, overallScore, pc, inflight>>

ErrorEvent ==
  /\ pc = "cache"
  /\ \E c \in 1..Len(clients) :
       /\ OnError
       /\ emitter' = c
  /\ UNCHANGED <<inputVars, error, unitVars, scanVars, requestVars, task, deploymentFrequency,
                 leadTimeForChanges, changeFailureRate, vulnerabilities, doraMetrics,
                 suggestions, overallScore, pc, inflight>>

\* cacheGet / cacheSet / cacheDelete up to their first await: getRedis returns
\* the shared client or creates one (null when the constructor throws, and
\* the call returns), then client.connect() is called
CacheCall ==
  /\ pc = "cache" /\ Len(inflight) < MaxCalls
  /\ \E op \in CacheOps :
       IF redis # Null
       THEN /\ inflight' = Append(inflight, Awaiting(op, redis[1]))
            /\ UNCHANGED <<redis, clients>>
       ELSE \/ /\ Len(clients) < MaxClients
               /\ clients' = Append(clients, "open")
               /\ redis' = Some(Len(clients) + 1)
               /\ inflight' = Append(inflight, Awaiting(op, Len(clients) + 1))
            \/ /\ inflight' = Append(inflight,
                                     Resolved(op, IF op = "cacheGet" THEN "null" ELSE "undefined"))
               /\ UNCHANGED <<redis, clients>>
  /\ UNCHANGED <<inputVars, error, unitVars, scanVars, requestVars, task, deploymentFrequency,
                 leadTimeForChanges, changeFailureRate, vulnerabilities, doraMetrics,
                 suggestions, overallScore, pc, emitter>>

\* client.connect() settles; its rejection is swallowed by .catch(() => {}),
\* and the command is sent
ConnectSettled ==
  /\ pc = "cache"
  /\ \E i \in 1..Len(inflight) :
       /\ inflight[i].at = "connect"
       /\ inflight' = [inflight EXCEPT ![i].at = "command"]
  /\ UNCHANGED <<inputVars, error, unitVars, scanVars, requestVars, task, deploymentFrequency,
                 leadTimeForChanges, changeFailureRate, vulnerabilities, doraMetrics,
                 suggestions, overallScore, pc, redis, clients, emitter>>

\* what the command of a call settles to: a disconnected client rejects it
Replies(c) ==
  IF clients[c.client] = "disconnected" THEN {"rejected"}
  ELSE IF c.op = "cacheGet" THEN {"json", "unparsable", "nil", "rejected"}
  ELSE {"ok", "rejected"}

\* get / set / del settles: a rejection and a JSON.parse error are caught,
\* cacheGet returns the parsed value or null, the others return nothing
CommandSettled ==
  /\ pc = "cache"
  /\ \E i \in 1..Len(inflight) :
       /\ inflight[i].at = "command"
       /\ \E reply \in Replies(inflight[i]) :
            inflight' = [inflight EXCEPT
                           ![i] = Resolved(inflight[i].op,
                                           IF reply = "json" THEN "parsed"
                                           ELSE IF inflight[i].op = "cacheGet" THEN "null"
                                           ELSE "undefined")]
  /\ UNCHANGED <<inputVars, error, unitVars, scanVars, requestVars, task, deploymentFrequency,
                 leadTimeForChanges, changeFailureRate, vulnerabilities, doraMetrics,
                 suggestions, overallScore, pc, redis, clients, emitter>>

NextCache ==
  \/ CacheCall
  \/ ConnectSettled
  \/ CommandSettled
  \/ ErrorEvent

CacheSpec == InitCache /\ [][NextCache]_vars

-----------------------------------------------------------------------------
(* Claims                                                                  *)

IsMedium(v) == v.severity = "medium"

Points(rating) ==
  CASE rating = "Elite" -> 100
    [] rating = "High" -> 75
    [] rating = "Medium" -> 50
    [] rating = "Low" -> 25
    [] rating = "N/A" -> 50

\* three times (average of the three rating scores minus the penalty)
ScoreThirds ==
  Points(doraMetrics.deploymentFrequency.rating)
    + Points(doraMetrics.leadTimeForChanges.rating)
    + Points(doraMetrics.changeFailureRate.rating)
    - 3 * (5 * Len(SelectSeq(vulnerabilities, IsCritical))
             + 2 * Len(SelectSeq(vulnerabilities, IsHigh))
             + Len(SelectSeq(vulnerabilities, IsMedium)))

\* the integer nearest to ScoreThirds / 3 (thirds are never half-way)
NearestToScore ==
  LET t == ScoreThirds
  IN CHOOSE n \in ((t \div 3) - 1)..((t \div 3) + 1) : Abs(3 * n - t) <= 1

AllRated(rating) ==
  /\ doraMetrics.deploymentFrequency.rating = rating
  /\ doraMetrics.leadTimeForChanges.rating = rating
  /\ doraMetrics.changeFailureRate.rating = rating

\* C1: the overall score of both engines is round(avg(score(df), score(lt),
\* score(cfr)) - penalty) clamped to [0, 100], with Elite=100, High=75,
\* Medium=50, Low=25, N/A=50 and penalty 5 per critical, 2 per high, 1 per
\* medium vulnerability; it is an integer in 0..100 that no other field
\* (the meanTimeToRestore rating among them) enters; all-Elite without
\* vulnerabilities gives 100 and all-Low without vulnerabilities gives 25.
C1_OverallScore ==
  Done("score") =>
    /\ overallScore = Max2(0, Min2(100, NearestToScore))
    /\ overallScore \in 0..100
    /\ (AllRated("Elite") /\ vulnerabilities = <<>>) => overallScore = 100
    /\ (AllRated("Low") /\ vulnerabilities = <<>>) => overallScore = 25

\* C1 witness: a score computed for a value with a rated meanTimeToRestore
\* and a penalty above the average, which the floor at 0 absorbs.
C1_Witness ==
  /\ pc = "unit" /\ Done("score")
  /\ doraMetrics.meanTimeToRestore.rating = "High"
  /\ ScoreThirds < 0
  /\ overallScore = 0

SetMax(S) == CHOOSE x \in S : \A y \in S : y <= x

SetMin(S) == CHOOSE x \in S : \A y \in S : x <= y

\* whole calendar weeks from the oldest to the newest of a set of timestamps
WeeksSpanned(S) == differenceInCalendarWeeks(SetMax(S), SetMin(S))

DeployTimes == {deployments[i].created_at : i \in 1..Len(deployments)}

MergeTimes == {mergedPRs[i].merged_at : i \in 1..Len(mergedPRs)}

\* the largest span in calendar weeks the timestamps of the fixtures allow
MaxWeeks == 1 + WeeksSpanned(FreqTimes)

\* C2: the source is "deployments_api" exactly when fetchDeployments
\* returned at least 2 records and "merged_prs_fallback" otherwise, and the
\* tag names the records deploymentsPerWeek was counted from: on the formal
\* path the number of deployment records over some number of weeks (which
\* number, and its sign, is C3's subject), on the fallback path the merged
\* pull requests over the weeks they span.
C2_SourceTag ==
  Done("deploymentFrequency") =>
    /\ deploymentFrequency.source = "deployments_api" <=> Len(deployments) >= 2
    /\ deploymentFrequency.source = "merged_prs_fallback" <=> Len(deployments) < 2
    /\ deploymentFrequency.source = "deployments_api" =>
         \E w \in 1..MaxWeeks :
           Abs(deploymentFrequency.deploymentsPerWeek)
             = ToFixed(Len(deployments), w, 100)
    /\ deploymentFrequency.source = "merged_prs_fallback" =>
         deploymentFrequency.deploymentsPerWeek
           = IF Len(mergedPRs) < 2 THEN 0
             ELSE ToFixed(Len(mergedPRs), Max2(1, WeeksSpanned(MergeTimes)), 100)

\* C2 witness: one deployment record and two merged pull requests: the
\* fallback ran and produced a rate from the pull requests.
C2_Witness ==
  /\ Done("deploymentFrequency")
  /\ Len(deployments) = 1 /\ Len(mergedPRs) = 2
  /\ deploymentFrequency.source = "merged_prs_fallback"
  /\ deploymentFrequency.deploymentsPerWeek > 0

\* C3: on both paths deploymentsPerWeek = count / max(1, W) to two decimals,
\* W the whole calendar weeks between the oldest and the newest record, for
\* every count and every order of the records.
C3_PerWeek ==
  Done("deploymentFrequency") =>
    deploymentFrequency.deploymentsPerWeek
      = IF Len(deployments) >= 2
        THEN ToFixed(Len(deployments), Max2(1, WeeksSpanned(DeployTimes)), 100)
        ELSE IF Len(mergedPRs) = 0 THEN 0
        ELSE ToFixed(Len(mergedPRs), Max2(1, WeeksSpanned(MergeTimes)), 100)

\* C4: with zero merged pull requests leadTimeForChanges is
\* {medianHours: 0, rating: "N/A"}, in computeDORAMetrics and in analyze.
C4_NoMergedPRs ==
  (Done("leadTime") /\ Len(mergedPRs) = 0) =>
    leadTimeForChanges = [medianHours |-> 0, rating |-> "N/A"]

NoCompletedRuns == Len(SelectSeq(workflowRuns, IsCompleted)) = 0

\* C5: with no run, or only runs that are not completed, changeFailureRate
\* is {percentage: 0, failedRuns: 0, totalRuns: 0, rating: "N/A"}, and the
\* rating is N/A if and only if there are zero completed runs.
C5_NoCompletedRuns ==
  Done("changeFailureRate") =>
    /\ NoCompletedRuns =>
         changeFailureRate =
           [percentage |-> 0, failedRuns |-> 0, totalRuns |-> 0, rating |-> "N/A"]
    /\ changeFailureRate.rating = "N/A" <=> NoCompletedRuns

IsCompletedFailure(r) == r.status = "completed" /\ r.conclusion = "failure"

CompletedOnly == SelectSeq(workflowRuns, IsCompleted)

FailureRateOfCompletedOnly ==
  IF entry = "web" THEN computeChangeFailureRate(CompletedOnly)
  ELSE computeCFR(CompletedOnly)

\* C6: totalRuns is the number of completed runs, failedRuns the number of
\* completed runs that failed, percentage their ratio times 100 to one
\* decimal (0 without completed runs), so 0 <= failedRuns <= totalRuns and
\* 0 <= percentage <= 100; runs that are in progress or queued change none
\* of the three; with completed runs the rating is Elite at <= 5, High at
\* <= 10, Medium at <= 15 and Low above.
C6_FailureRate ==
  Done("changeFailureRate") =>
    LET total == changeFailureRate.totalRuns
        failed == changeFailureRate.failedRuns
        pct == changeFailureRate.percentage
    IN /\ total = Len(SelectSeq(workflowRuns, IsCompleted))
       /\ failed = Len(SelectSeq(workflowRuns, IsCompletedFailure))
       /\ 0 <= failed /\ failed <= total
       /\ 0 <= pct /\ pct <= 1000
       /\ total = 0 => pct = 0
       /\ total > 0 => 2 * Abs(pct * total - 1000 * failed) <= total
       /\ total > 0 =>
            changeFailureRate.rating
              = IF pct <= 50 THEN "Elite" ELSE IF pct <= 100 THEN "High"
                ELSE IF pct <= 150 THEN "Medium" ELSE "Low"
       /\ FailureRateOfCompletedOnly.totalRuns = total
       /\ FailureRateOfCompletedOnly.failedRuns = failed
       /\ FailureRateOfCompletedOnly.percentage = pct

\* C6 witness: a failed and a successful completed run next to one that is
\* still in progress or queued: 1 of 2, 50 per cent, Low.
C6_Witness ==
  /\ Done("changeFailureRate")
  /\ Len(workflowRuns) = 3
  /\ changeFailureRate.totalRuns = 2
  /\ changeFailureRate.failedRuns = 1
  /\ changeFailureRate.percentage = 500
  /\ changeFailureRate.rating = "Low"

\* C7: computeDORAMetrics returns meanTimeToRestore computed from the
\* fetched workflow runs (the median gap from each completed failure to the
\* next completed success on its branch, rated by the MTTR thresholds), and
\* N/A only when there is no such gap.
C7_MTTRComputed ==
  (entry = "web" /\ Done("dora")) =>
    doraMetrics.meanTimeToRestore = computeMTTR(workflowRuns)

HoursOfPRs ==
  [i \in 1..Len(mergedPRs) |->
     differenceInHours(mergedPRs[i].merged_at, mergedPRs[i].created_at)]

\* the k-th smallest of the per-PR hours, found by counting
KthHours(k) ==
  CHOOSE x \in {HoursOfPRs[i] : i \in 1..Len(mergedPRs)} :
    /\ Cardinality({i \in 1..Len(mergedPRs) : HoursOfPRs[i] < x}) < k
    /\ Cardinality({i \in 1..Len(mergedPRs) : HoursOfPRs[i] <= x}) >= k

\* the median of the per-PR hours, in tenths
MedianOfHours ==
  LET n == Len(mergedPRs)
  IN IF n % 2 = 1 THEN 10 * KthHours((n + 1) \div 2)
     ELSE 5 * (KthHours(n \div 2) + KthHours((n \div 2) + 1))

\* C8: with at least one merged pull request medianHours is the median of
\* the per-PR hours from created_at to merged_at (the middle value, or the
\* average of the two middle values, whatever the order of the list), and
\* the rating is Elite below 24, High below 168, Medium below 720, else
\* Low; the median of an empty list is 0.
C8_MedianLeadTime ==
  /\ median(<<>>) = 0 /\ cliMedian(<<>>) = 0
  /\ (Done("leadTime") /\ Len(mergedPRs) >= 1) =>
       /\ leadTimeForChanges.medianHours = MedianOfHours
       /\ leadTimeForChanges.rating
            = IF MedianOfHours < 240 THEN "Elite"
              ELSE IF MedianOfHours < 1680 THEN "High"
              ELSE IF MedianOfHours < 7200 THEN "Medium" ELSE "Low"

\* C8 witness: three merged pull requests, returned with the slowest (720
\* hours) first and the 23-hour one last, rated Elite by their median, 0.
C8_Witness ==
  /\ Done("leadTime")
  /\ Len(mergedPRs) = 3
  /\ HoursOfPRs[1] = 720 /\ HoursOfPRs[2] = 0 /\ HoursOfPRs[3] = 23
  /\ leadTimeForChanges.medianHours = 230
  /\ leadTimeForChanges.rating = "Elite"

SeverityRank(s) ==
  CASE s.severity = "high" -> 0
    [] s.severity = "medium" -> 1
    [] s.severity = "low" -> 2

\* the place of a suggestion's rule in the order the rules are evaluated
RuleOf(s) ==
  CASE s.title \in {"High Pipeline Failure Rate", "Moderate Pipeline Failure Rate"} -> 1
    [] s.title \in {"Slow Lead Time for Changes", "PRs Are Sitting Too Long",
                    "PRs Sitting Too Long"} -> 2
    [] s.title = "Low Deployment Frequency" -> 3
    [] s.title = "No Formal Deployment Tracking" -> 4
    [] s.title \in {"Critical Vulnerabilities Found", "Critical Vulnerabilities"} -> 5
    [] s.title \in {"High-Severity Vulnerabilities Found",
                    "High-Severity Vulnerabilities"} -> 6
    [] s.title = "No Known Vulnerabilities" -> 7

\* C9: in the list generateSuggestions returns every high suggestion
\* precedes every medium one and every medium every low one, and
\* suggestions of equal severity stand in the order of their rules (change
\* failure rate, lead time, deployment frequency, deployment tracking,
\* critical, high, no vulnerabilities).
C9_SeverityOrder ==
  Done("suggestions") =>
    \A i, j \in 1..Len(suggestions) :
      i < j =>
        \/ SeverityRank(suggestions[i]) < SeverityRank(suggestions[j])
        \/ /\ SeverityRank(suggestions[i]) = SeverityRank(suggestions[j])
           /\ RuleOf(suggestions[i]) < RuleOf(suggestions[j])

\* C9 witness: six suggestions of the web engine: three high (failure
\* rate, lead time, critical vulnerabilities), two medium (frequency, high
\* vulnerabilities), one low (tracking), the security ones moved up.
C9_Witness ==
  /\ pc = "unit" /\ Done("suggestions")
  /\ Len(suggestions) = 6
  /\ suggestions[2].title = "Slow Lead Time for Changes"
  /\ suggestions[3].title = "Critical Vulnerabilities Found"
  /\ suggestions[4].title = "Low Deployment Frequency"
  /\ suggestions[5].severity = "medium"
  /\ suggestions[6].title = "No Formal Deployment Tracking"

HasSuggestion(severity, title) ==
  \E i \in 1..Len(suggestions) :
    suggestions[i].severity = severity /\ suggestions[i].title = title

\* C10: whenever the deployment source of a report is the merged-PR
\* fallback, its suggestions hold the low "No Formal Deployment Tracking"
\* one, whatever the rating, and with the rating Low also the "Low
\* Deployment Frequency" one: in the web pipeline and in the CLI analyze.
C10_TrackingSuggestion ==
  (pc = "done" /\ doraMetrics.deploymentFrequency.source = "merged_prs_fallback") =>
    /\ HasSuggestion("low", "No Formal Deployment Tracking")
    /\ doraMetrics.deploymentFrequency.rating = "Low" =>
         HasSuggestion("medium", "Low Deployment Frequency")


\* C11: generateSuggestions emits the medium "Low Deployment Frequency"
\* suggestion exactly when the deployment-frequency rating is Low or N/A,
\* never for Elite, High or Medium: in the web engine and in the CLI's.
C11_LowFrequency ==
  (pc = "unit" /\ Done("suggestions")) =>
    (HasSuggestion("medium", "Low Deployment Frequency")
       <=> doraMetrics.deploymentFrequency.rating \in {"Low", "N/A"})

\* how many of the returned suggestions have this severity and one of
\* these titles
CountSuggestions(severity, titles) ==
  Cardinality({i \in 1..Len(suggestions) :
                 suggestions[i].severity = severity /\ suggestions[i].title \in titles})

HighFailureRate == CountSuggestions("high", {"High Pipeline Failure Rate"})

ModerateFailureRate == CountSuggestions("medium", {"Moderate Pipeline Failure Rate"})

SlowLeadTime == CountSuggestions("high", {"Slow Lead Time for Changes"})

\* the web engine's title and the CLI's
SittingTooLong ==
  CountSuggestions("medium", {"PRs Are Sitting Too Long", "PRs Sitting Too Long"})

\* C12: generateSuggestions emits at most one change-failure-rate suggestion
\* and at most one lead-time suggestion: the high failure-rate one iff
\* percentage > 15, the medium one iff 10 < percentage <= 15, none iff
\* percentage <= 10; the high lead-time one iff medianHours > 168, the
\* medium one iff 48 < medianHours <= 168, none iff medianHours <= 48; the
\* high and the medium variant of a rule never come together.
C12_AtMostOnePerRule ==
  (pc = "unit" /\ Done("suggestions")) =>
    LET pct == doraMetrics.changeFailureRate.percentage
        hours == doraMetrics.leadTimeForChanges.medianHours
    IN /\ HighFailureRate = (IF pct > 150 THEN 1 ELSE 0)
       /\ ModerateFailureRate = (IF pct > 100 /\ pct <= 150 THEN 1 ELSE 0)
       /\ HighFailureRate + ModerateFailureRate <= 1
       /\ HighFailureRate + ModerateFailureRate = 0 <=> pct <= 100
       /\ SlowLeadTime = (IF hours > 1680 THEN 1 ELSE 0)
       /\ SittingTooLong = (IF hours > 480 /\ hours <= 1680 THEN 1 ELSE 0)
       /\ SlowLeadTime + SittingTooLong <= 1
       /\ SlowLeadTime + SittingTooLong = 0 <=> hours <= 480

\* C12 witness: 15.1 per cent and 168.5 hours: both high variants and
\* neither medium one; the list has no other reliability or lead-time entry.
C12_Witness ==
  /\ pc = "unit" /\ Done("suggestions")
  /\ doraMetrics.changeFailureRate.percentage = 151
  /\ doraMetrics.leadTimeForChanges.medianHours = 1685
  /\ HighFailureRate = 1 /\ SlowLeadTime = 1
  /\ ModerateFailureRate = 0 /\ SittingTooLong = 0


\* the vulnerabilities the database reported for a dependency
Reported(dep) ==
  IF dep \in DOMAIN osv /\ osv[dep].outcome = "ok" /\ Has(osv[dep], "vulns")
  THEN osv[dep].vulns ELSE <<>>

\* the (dependency, vulnerability) pairs a record of the result stands for
SourcesOf(record) ==
  {<<dep, vuln>> \in UNION {{<<d, Reported(d)[k]>> : k \in 1..Len(Reported(d))} :
                             d \in DOMAIN osv} :
     record.packageName = dep.name /\ record.vulnId = vuln.id}

\* the tier of a score parsed as a number
TierOf(score) ==
  LET cvss == parseFloat(score)
  IN IF AtLeast(cvss, 9) THEN "critical"
     ELSE IF AtLeast(cvss, 7) /\ ~AtLeast(cvss, 9) THEN "high"
     ELSE IF AtLeast(cvss, 4) /\ ~AtLeast(cvss, 7) THEN "medium"
     ELSE "low"

\* C13: the severity of a record is "unknown" if and only if the
\* vulnerability's severity array is absent or empty; otherwise it is the
\* tier of the first entry's score parsed as a number (critical >= 9, high
\* >= 7, medium >= 4, low for everything else), whatever the later entries
\* are; it is always one of the five tiers.
C13_ClassifySeverity ==
  pc = "returned" =>
    \A i \in 1..Len(vulnerabilities) : \A source \in SourcesOf(vulnerabilities[i]) :
      LET vuln == source[2]
          label == vulnerabilities[i].severity
          none == ~Has(vuln, "severity") \/ Len(vuln.severity) = 0
      IN /\ label \in Severities
         /\ label = "unknown" <=> none
         /\ ~none => label = TierOf(vuln.severity[1].score)

\* C13 witness: a first score of 7 followed by a score of 9.0: high.
C13_Witness ==
  /\ pc = "returned" /\ Len(vulnerabilities) = 1
  /\ vulnerabilities[1].severity = "high"
  /\ \E source \in SourcesOf(vulnerabilities[1]) :
       /\ Has(source[2], "severity") /\ Len(source[2].severity) = 2
       /\ source[2].severity[1].score = <<"7">>
       /\ source[2].severity[2].score = <<"9", ".", "0">>

\* the fixed values of a vulnerability's first affected entry that matches
\* the dependency, in declaration order: range by range, event by event
FixedValues(vuln, dep) ==
  LET hits == IF Has(vuln, "affected")
              THEN {i \in 1..Len(vuln.affected) :
                      /\ vuln.affected[i].package.name = dep.name
                      /\ vuln.affected[i].package.ecosystem = dep.ecosystem}
              ELSE {}
  IN IF hits = {} THEN <<>>
     ELSE LET first == vuln.affected[SetMin(hits)]
          IN IF ~Has(first, "ranges") THEN <<>>
             ELSE LET events == EventsOf(first.ranges)
                      fixed == {k \in 1..Len(events) :
                                  Has(events[k], "fixed") /\ events[k].fixed # ""}
                  IN [n \in 1..Cardinality(fixed) |->
                        events[CHOOSE k \in fixed :
                                 Cardinality({j \in fixed : j <= k}) = n].fixed]

\* C14: the fixedVersion of a record is the first fixed value, in
\* declaration order, of the affected entry that matches the dependency (a
\* later range or event never replaces it), and null when no entry matches
\* or the matching ranges have no fixed event.
C14_FirstFixedVersion ==
  pc = "returned" =>
    \A i \in 1..Len(vulnerabilities) : \A source \in SourcesOf(vulnerabilities[i]) :
      LET fixed == FixedValues(source[2], source[1])
      IN vulnerabilities[i].fixedVersion
           = IF Len(fixed) = 0 THEN Null ELSE Some(fixed[1])

\* packageName, currentVersion and vulnId of each record of a result
KeysOf(records) ==
  [i \in 1..Len(records) |->
     <<records[i].packageName, records[i].currentVersion, records[i].vulnId>>]

\* one key per (dependency, reported vulnerability) pair, in dependency
\* order and, within a dependency, in the order of the reply
RECURSIVE ExpectedKeys(_)
ExpectedKeys(deps) ==
  IF Len(deps) = 0 THEN <<>>
  ELSE [k \in 1..Len(Reported(deps[1])) |->
          <<deps[1].name, deps[1].version, Reported(deps[1])[k].id>>]
         \o ExpectedKeys(Tail(deps))

\* C15: whatever the batch size, the scan returns exactly one record per
\* (dependency, returned vulnerability) pair, in dependency order and within
\* a dependency in the order of the database's reply.
C15_BatchSizeIrrelevant ==
  pc = "returned" => KeysOf(vulnerabilities) = ExpectedKeys(allDeps)

\* C15 witness: three dependencies scanned in batches of two, the second
\* batch holding the dependency with two vulnerabilities.
C15_Witness ==
  /\ pc = "returned" /\ scanner = "scanDependencies" /\ batchSize = 2
  /\ allDeps = <<DepB, DepC, DepA>>
  /\ KeysOf(vulnerabilities)
       = << <<DepB.name, DepB.version, "V3">>, <<DepC.name, DepC.version, "V4">>,
            <<DepA.name, DepA.version, "V1">>, <<DepA.name, DepA.version, "V2">> >>

\* the query for this dependency throws or gets a response that is not OK
QueryFails(dep) == dep \in DOMAIN osv /\ osv[dep].outcome # "ok"

QuerySucceeds(dep) == ~QueryFails(dep)

IsOfSucceeded(record) ==
  \E d \in DOMAIN osv : QuerySucceeds(d) /\ record.packageName = d.name

\* C16: when queries fail the scan still returns; the dependencies whose
\* query failed contribute no record, and the records of the others are
\* what they are without the failed ones.
C16_FailuresAbsorbed ==
  /\ pc # "rejected"
  /\ pc = "returned" =>
       /\ \A i \in 1..Len(vulnerabilities) : IsOfSucceeded(vulnerabilities[i])
       /\ KeysOf(SelectSeq(vulnerabilities, IsOfSucceeded))
            = ExpectedKeys(SelectSeq(allDeps, QuerySucceeds))

\* C16 witness: the query of DepA throws, the one of DepC is not OK, the
\* one of DepB in between reports V3: the scan returns V3 alone.
C16_Witness ==
  /\ pc = "returned" /\ allDeps = <<DepA, DepB, DepC>>
  /\ osv[DepA].outcome = "throws" /\ osv[DepC].outcome = "notok"
  /\ KeysOf(vulnerabilities) = << <<DepB.name, DepB.version, "V3">> >>

\* C17: the scan of an entry point fetches the three manifests and queries
\* every dependency they declare: a dependency declared in go.mod is
\* queried and its vulnerabilities are in the result, in the CLI as in the
\* web scan.
C17_AllManifests ==
  (pc = "returned" /\ scanner \in {"lib", "web", "cli"}) =>
    /\ \A n \in {"package.json", "requirements.txt", "go.mod"} :
         \E c \in 1..Len(calls) : calls[c] = FileCall(n)
    /\ files["go.mod"] = Some(GoModC) =>
         /\ \E c \in 1..Len(calls) : calls[c] = QueryCall(DepC)
         /\ \E i \in 1..Len(vulnerabilities) :
              vulnerabilities[i].packageName = DepC.name /\ vulnerabilities[i].vulnId = "V4"

IsNpm(dep) == dep.ecosystem = "npm"

IsPyPI(dep) == dep.ecosystem = "PyPI"

IsGo(dep) == dep.ecosystem = "Go"

\* the manifest was fetched and is absent
Absent(name) == name \in DOMAIN fetched /\ fetched[name] = Null

\* the manifest was fetched and has this content
Holds(name, content) == name \in DOMAIN fetched /\ fetched[name] = Some(content)

\* C18: the parsers never throw: a package.json that is not JSON yields no
\* dependency, requirement lines that are blank, comments or not of the form
\* name-operator-version are skipped, a go.mod without a require block yields
\* no dependency; an absent manifest counts as one with zero dependencies.
C18_ParsersNeverThrow ==
  /\ pc # "rejected"
  /\ (pc \in {"query", "returned"} /\ scanner \in {"lib", "web", "cli"}) =>
       /\ (Absent("package.json") \/ Holds("package.json", [json |-> FALSE]))
            => SelectSeq(allDeps, IsNpm) = <<>>
       /\ Absent("requirements.txt") => SelectSeq(allDeps, IsPyPI) = <<>>
       /\ Holds("requirements.txt",
                <<"#", " ", "x", "\n", "\n", " ", "b", " ", ">", "=", " ", "2", ".", "0",
                  "\n", "z", "z">>)
            => SelectSeq(allDeps, IsPyPI) = <<DepB>>
       /\ Holds("requirements.txt", <<"-", "r", " ", "x", "\n", "b", "=", "=", "x">>)
            => SelectSeq(allDeps, IsPyPI) = <<>>
       /\ (\/ Absent("go.mod")
           \/ Holds("go.mod", <<"m", "o", "d", "u", "l", "e", " ", "m", "\n">>)
           \/ Holds("go.mod", <<"r", "e", "q", "u", "i", "r", "e", " ", "c", " ", "v", "1",
                                ".", "2">>))
            => SelectSeq(allDeps, IsGo) = <<>>

\* C18 witness: a package.json that is not JSON, a requirements.txt with a
\* comment, a blank line, a requirement and a bare name, no go.mod: the
\* scan returns with the one requirement.
C18_Witness ==
  /\ pc = "returned" /\ scanner = "web"
  /\ Holds("package.json", [json |-> FALSE])
  /\ Absent("go.mod")
  /\ allDeps = <<DepB>>
  /\ KeysOf(vulnerabilities) = << <<DepB.name, DepB.version, "V3">> >>


ParsedAs(owner, name) ==
  pc # "request" => /\ pc # "threw"
                    /\ ~(pc = "responded" /\ response = 400)
                    /\ id = Identifier(owner, name)

\* C20: for every owner and name of one or more characters from
\* [A-Za-z0-9_.-], parseRepoSlug of "owner/name" and of
\* "https://github.com/owner/name" succeeds and returns {owner, repo: name}.
C20_RoundTrip ==
  \A o \in OwnerFixtures, n \in NameFixtures :
    repoInput \in {Slug(o, n), Url(o, n)} => ParsedAs(o, n)

\* C20 amended: the same, for every name that does not end in ".git".
C20_RoundTripExceptDotGit ==
  \A o \in OwnerFixtures, n \in NameFixtures :
    (repoInput \in {Slug(o, n), Url(o, n)} /\ ~EndsWith(n, DotGit)) => ParsedAs(o, n)

\* C20 witness: the URL of github.com/n.js was parsed to {github.com, n.js}.
C20_Witness ==
  /\ pc = "validated"
  /\ repoInput = Url(<<"g", "i", "t", "h", "u", "b", ".", "c", "o", "m">>, <<"n", ".", "j", "s">>)
  /\ id = Identifier(<<"g", "i", "t", "h", "u", "b", ".", "c", "o", "m">>, <<"n", ".", "j", "s">>)


\* the call of fn on its own has returned
HasReturned(fn) == pc = "returned" /\ call.fn = fn

\* C21: the returned sentimentMultiplier is 1.0 + clamp(ratio, 0, 1) x 0.5:
\* within [1.0, 1.5], 1.0 for an absent, zero or negative ratio, 1.5 for
\* every ratio of 1 or more.
C21_SentimentClamped ==
  HasReturned("computeRiskScore") =>
    LET ratio == call.input.sentimentNegativeRatio
        clamped == IF ratio = Null THEN 0 ELSE Min2(100, Max2(0, ratio[1]))
    IN /\ 2 * result[1].sentimentMultiplier = 200 + clamped
       /\ result[1].sentimentMultiplier \in 100..150

\* the delta the specification gives for actual, as <<numerator, denominator>>
DeltaOf(actual, benchmark, cap) ==
  IF actual <= benchmark THEN <<0, 1>>
  ELSE IF actual >= cap THEN <<1, 1>>
  ELSE <<actual - benchmark, cap - benchmark>>

\* actual - benchmark, kept within 0 .. cap - benchmark
Excess(actual, benchmark, cap) == Max2(0, Min2(cap - benchmark, actual - benchmark))

\* C22: score = round(100 x sentimentMultiplier x (0.6 x cycleTimeDelta +
\* 0.4 x failureRateDelta)) clamped to [0, 100], an integer of 0..100; with
\* multiplier 1.0, deltas (1, 0) give 60 and (0, 1) give 40; the level is
\* critical from 75, high from 50, moderate from 25, low below.  With
\* cycleTimeDelta = c / 6960, failureRateDelta = f / 950 and the multiplier
\* m / 100, the product is m x (95 c + 464 f) / 1102000.
C22_ScoreFormula ==
  HasReturned("computeRiskScore") =>
    LET r == result[1]
        c == Excess(call.input.medianHours, 240, 7200)
        f == Excess(call.input.percentage, 50, 1000)
        m == r.sentimentMultiplier
        rounded == (2 * m * (95 * c + 464 * f) + 1102000) \div 2204000
    IN /\ r.score = (IF rounded > 100 THEN 100 ELSE IF rounded < 0 THEN 0 ELSE rounded)
       /\ r.score \in 0..100
       /\ (m = 100 /\ c = 6960 /\ f = 0) => r.score = 60
       /\ (m = 100 /\ c = 0 /\ f = 950) => r.score = 40
       /\ r.level = "critical" <=> r.score >= 75
       /\ r.level = "high" <=> r.score \in 50..74
       /\ r.level = "moderate" <=> r.score \in 25..49
       /\ r.level = "low" <=> r.score < 25

\* C22 witness: 720 hours, 5 per cent and no sentiment scored 60, high.
C22_Witness ==
  /\ HasReturned("computeRiskScore")
  /\ call.input = RiskInput(7200, 50, Null)
  /\ result[1].score = 60 /\ result[1].level = "high"

\* C23: for benchmark < cap, normalizeDelta is 0 up to the benchmark, 1 from
\* the cap, (actual - benchmark) / (cap - benchmark) in between, within
\* [0, 1] for every actual, and non-decreasing in actual.
C23_NormalizeDelta ==
  (HasReturned("normalizeDelta") /\ call.eliteBenchmark < call.maxCap) =>
    LET d == result[1]
        expected == DeltaOf(call.actual, call.eliteBenchmark, call.maxCap)
    IN /\ d.den > 0
       /\ d.num * expected[2] = expected[1] * d.den
       /\ 0 <= d.num /\ d.num <= d.den
       /\ \A larger \in DeltaActuals :
            larger >= call.actual =>
              Leq(d, normalizeDelta(larger, call.eliteBenchmark, call.maxCap))

\* C23 witness: normalizeDelta(372, 24, 720) returned one half.
C23_Witness ==
  /\ HasReturned("normalizeDelta")
  /\ call.actual = 3720 /\ call.eliteBenchmark = 240 /\ call.maxCap = 7200
  /\ result[1] = [num |-> 1, den |-> 2]


\* open pull requests of the reply older than maxHours with no review
Unreviewed(c) ==
  SelectSeq(c.reply.data,
            LAMBDA pr : c.now - pr.created_at > c.maxHours * 60 /\ pr.reviews = 0)

\* C24: checkStalePRs returns "fail", naming the pull requests, when some
\* open pull request is older than maxHours and has received no review,
\* "pass" when there is none, and "warn" when the list cannot be fetched.
C24_StalePRs ==
  HasReturned("checkStalePRs") =>
    IF call.reply.rejected THEN result[1].status = "warn"
    ELSE IF Len(Unreviewed(call)) = 0 THEN result[1].status = "pass"
    ELSE /\ result[1].status = "fail"
         /\ \A i \in 1..Min2(5, Len(Unreviewed(call))) :
              \E j \in 1..Len(result[1].listed) :
                result[1].listed[j] = Unreviewed(call)[i].number


\* a completed failed run
FailedRun(r) == r.status = "completed" /\ r.conclusion = "failure"

\* the completed successful runs on r's branch created after r
LaterSuccesses(runs, r) ==
  {j \in 1..Len(runs) :
     /\ runs[j].status = "completed" /\ runs[j].conclusion = "success"
     /\ runs[j].head_branch = r.head_branch
     /\ runs[j].created_at > r.created_at}

\* the hour gap from r to the earliest of its later successes
GapOf(runs, r) ==
  LET first == CHOOSE j \in LaterSuccesses(runs, r) :
                 \A k \in LaterSuccesses(runs, r) : runs[j].created_at <= runs[k].created_at
  IN differenceInHours(runs[first].created_at, r.created_at)

\* one sample for each failed run with a later success on its branch
ExpectedSamples(runs) ==
  LET restored == SelectSeq(runs, LAMBDA r : FailedRun(r) /\ LaterSuccesses(runs, r) # {})
  IN [i \in 1..Len(restored) |-> GapOf(runs, restored[i])]

Ascending(values) == SortedBy(values, Identity(values))

Reorderings(runs) ==
  {[i \in 1..Len(runs) |-> runs[p[i]]] :
     p \in {q \in [1..Len(runs) -> 1..Len(runs)] : \A i, j \in 1..Len(runs) : q[i] = q[j] => i = j}}

\* C25: computeMTTR records exactly one sample for each completed failed
\* run that has a later completed successful run on the same branch, the
\* hour gap to the earliest such success, and none for any other run; runs
\* that are not completed are never used; and the result is the same for
\* every order in which the runs were fetched.
C25_RestoreSamples ==
  HasReturned("computeMTTR") =>
    /\ Ascending(result[1].restorationTimes) = Ascending(ExpectedSamples(call.runs))
    /\ \A other \in Reorderings(call.runs) :
         computeMTTR(other) = result[1].meanTimeToRestore

\* C25 for runs created at distinct times
C25_RestoreSamplesNoTies ==
  (\A i, j \in 1..Len(call.runs) : call.runs[i].created_at = call.runs[j].created_at => i = j)
    => C25_RestoreSamples


AnalyzeTasks == {"deploymentFrequency", "leadTime", "changeFailureRate", "scan"}

\* the collaborator calls the task makes, for the replies of this run
CallsOf(t) ==
  CASE t = "deploymentFrequency" ->
         IF Len(deployments) >= 2 THEN {"fetchDeployments"}
         ELSE {"fetchDeployments", "fetchMergedPRs"}
    [] t = "leadTime" -> {"fetchMergedPRs"}
    [] t = "changeFailureRate" -> {"fetchWorkflowRuns"}
    [] t = "scan" -> {}

\* C26: analyze computes suggestions and the score only after its four
\* tasks have completed, in whatever order they complete; the result it
\* returns is determined by the collaborators' replies, not by that order;
\* and once a task has rejected, analyze returns no result: it is rejected,
\* or about to be, with the error of a call that failed.
C26_JoinThenAssemble ==
  entry = "cli" /\ pc \in {"running", "rejected", "done"} =>
    /\ (Done("suggestions") \/ Done("score") \/ Done("dora")) =>
         pc = "done" /\ \A t \in AnalyzeTasks : Done(t)
    /\ pc = "done" =>
         LET dora == cliDoraMetrics(computeDeployFrequency(deployments, mergedPRs),
                                    cliComputeLeadTime(mergedPRs), computeCFR(workflowRuns))
         IN /\ doraMetrics = dora
            /\ vulnerabilities = scanResult
            /\ suggestions = cliGenerateSuggestions(dora, scanResult)
            /\ overallScore = computeScore(dora, scanResult)
    /\ (\E t \in AnalyzeTasks : task[t] = "rejected") =>
         /\ pc # "done"
         /\ doraMetrics = Unset /\ suggestions = <<>> /\ overallScore = 0
         /\ error # Null
         /\ \E t \in AnalyzeTasks : task[t] = "rejected" /\ error[1] \in CallsOf(t) \cap failing
    /\ pc = "rejected" => \E t \in AnalyzeTasks : task[t] = "rejected"

\* C26 witness: analyze has rejected with the error of fetchWorkflowRuns
\* after the scan and the lead-time task had completed.
C26_Witness ==
  /\ entry = "cli" /\ pc = "rejected"
  /\ error = Some("fetchWorkflowRuns")
  /\ Done("scan") /\ Done("leadTime") /\ task["changeFailureRate"] = "rejected"
  /\ doraMetrics = Unset


\* the dependencies whose query has been issued: those up to the end of the
\* batch being awaited
Issued ==
  IF pc = "await" THEN Min2(cursor + batchSize, Len(allDeps))
  ELSE IF pc = "call" THEN 0
  ELSE Min2(cursor, Len(allDeps))

\* C27: at most batchSize queries are outstanding at any moment, all of the
\* batch being awaited, so a batch is issued only when every query of the
\* batch before it has settled; the queries issued are those of the
\* dependencies in order, one each, whether or not a query fails.
C27_BoundedFanOut ==
  scanner = "scanDependencies" =>
    /\ Cardinality(outstanding) <= batchSize
    /\ outstanding \subseteq (cursor + 1)..Issued
    /\ pc # "await" => outstanding = {}
    /\ calls = [i \in 1..Issued |-> QueryCall(allDeps[i])]
    /\ pc = "returned" => Issued = Len(allDeps)

\* C27 witness: three dependencies in batches of two; the second batch is
\* in flight, the first has settled, and DepA's failed query was issued once.
C27_Witness ==
  /\ scanner = "scanDependencies" /\ pc = "await"
  /\ batchSize = 2 /\ Len(allDeps) = 3 /\ cursor = 2
  /\ outstanding = {3}
  /\ allDeps[1] = DepA /\ osv[DepA].outcome = "throws"
  /\ Len(calls) = 3

\* the collaborators POST has called so far
Called == {calls[i].op : i \in 1..Len(calls)}

\* C28: a POST whose cache lookup yields a stored analysis answers 200 with
\* that analysis plus _cached: true after the one call of cacheGet, with no
\* fetch, scan or cacheSet; cacheSet is called only once every task has
\* resolved and the assembled analysis is the 200 response, and never on a
\* request answered with 400, 429 or 500.
C28_CacheHitAndWrite ==
  entry = "web" =>
    /\ (stored # Null /\ "cacheGet" \in Called /\ "cacheSet" \notin Called) =>
         /\ pc = "responded" /\ response = 200
         /\ body = Some(Cached(stored[1]))
         /\ calls = <<Call("cacheGet", id)>>
    /\ "cacheSet" \in Called =>
         /\ failing = {}
         /\ pc = "responded" /\ response = 200
         /\ body = Some(Analysis)
         /\ stored \in {Null, Some(Analysis)}
    /\ (pc = "responded" /\ response \in {400, 429, 500}) =>
         /\ "cacheSet" \notin Called
         /\ stored \in {Null, Some(StoredAnalysis)}
         /\ body = Null

\* C28 witness: a request was answered with the stored analysis and
\* _cached: true after its one call of cacheGet.
C28_Witness ==
  /\ entry = "web" /\ pc = "responded" /\ response = 200
  /\ stored = Some(StoredAnalysis)
  /\ body = Some(Cached(StoredAnalysis))
  /\ calls = <<Call("cacheGet", id)>>

\* the same records in the opposite order
Backwards(s) == [i \in 1..Len(s) |-> s[Len(s) + 1 - i]]

\* what the entry point reports for these replies of the collaborators
FrequencyOf(deps, prs) ==
  IF entry = "web"
  THEN computeDeploymentFrequency(deps, prs)
  ELSE computeDeployFrequency(deps, prs)

\* C29: deploymentsPerWeek is never negative (the week span it divides by is
\* at least 1), and the reported value and rating are those of the same
\* deployment records and merged pull requests returned in the opposite
\* order, so an ascending reply is never rated Low for its order alone.
C29_OrderOfRecords ==
  Done("deploymentFrequency") =>
    /\ deploymentFrequency.deploymentsPerWeek >= 0
    /\ deploymentFrequency = FrequencyOf(Backwards(deployments), Backwards(mergedPRs))

\* C30: a step disconnects a client, or empties the shared handle that held
\* it, only when that client is the one whose "error" event the step
\* handles; and no cacheGet, cacheSet or cacheDelete call is rejected.
C30_ErrorDiscardsOwnClient ==
  [][/\ \A c \in 1..Len(clients) :
          /\ (clients[c] = "open" /\ clients'[c] = "disconnected") => emitter' = c
          /\ (redis = Some(c) /\ redis' = Null) => emitter' = c
     /\ \A i \in 1..Len(inflight') : inflight'[i].at # "rejected"]_vars

====
